---- MODULE Spec2Model ----
(***************************************************************************)
(* Verification model of the ingestion pipeline's exchange sessions,       *)
(* stream normalizer, stores and consumer API.                             *)
(*                                                                         *)
(*   BybitWebSocketManager   src/src/connectors/bybit/websocket.ts         *)
(*   BinanceWebSocketManager src/src/connectors/binance/websocket.ts       *)
(*   BinanceConnector        src/unnamed/part_000                          *)
(*   BybitConnector tickers  src/src/connectors/bybit/symbols.ts           *)
(*   MarketStore             src/src/store/markets.ts                      *)
(*   RollingWindow           src/src/compute/metrics-manager.ts            *)
(*   MetricsManager          src/src/compute/metrics-manager.ts            *)
(*   derived metrics         src/unnamed/part_003                          *)
(*   WebSocketAPI            src/src/api/websocket.ts                      *)
(*   LeaderboardStore        src/src/store/leaderboards.ts                 *)
(*   EnhancedLeaderboardStore src/src/store/enhanced-leaderboards.ts       *)
(*   aggregated store, wiring src/src/index.ts                             *)
(*   REST readers            src/src/api/server.ts                         *)
(*                                                                         *)
(* A session is a record; every method of the class is an operator from    *)
(* session record to session record, so that a handler that calls other    *)
(* methods (open -> resubscribeAll -> subscribe, close -> scheduleReconnect,*)
(* timer -> connect) is one atomic step, as it is on the single-threaded   *)
(* event loop.  Sockets of the `ws` library and setTimeout timers are      *)
(* bags in the record; the environment opens  and closes sockets and fires *)
(* timers in any order.                                                    *)
(***************************************************************************)
EXTENDS Integers, Sequences, FiniteSets, Bags, TLC

\* ------------------------------------------------------------------ bounds
\* Sockets that exist at once (connecting, open or closing).
MaxSockets == 2
\* setTimeout callbacks pending at once.
MaxTimers == 1
\* Binance stream names come in two blocks: names 1..SmallBlock and the
\* SmallBlock after them in the runs that stay below the per-connection cap,
\* names 1..StreamBlock and the 2*StreamBlock after them in the runs that
\* split the streams over several connections.
SmallBlock == 20
StreamBlock == 40
\* Retries a connection is driven through in the runs that split the streams
\* and in the runs of the connectors.
MaxSplitRetries == 1
\* Numeric field texts of the Binance frames are the texts of 1..MaxPrice.
MaxPrice == 2
\* Ticker frames the Bybit connector handles in a run.
MaxMessages == 2
\* The window driven on its own: bucket width and number of buckets.
RwBucketSizeMs == 2
RwBucketCount == 3
\* add() calls on the window driven on its own.
MaxAdds == 3
\* Trades handed to the MetricsManager in a run of the derivation.
MaxTrades == 2
\* Seconds that pass in a run of the MetricsManager.
MaxTicks == 2
\* setInterval timers of the MetricsManager that exist at once.
MaxIntervals == 2
\* Consumers connected at a time in a run of the liveness probe and in a
\* run of the broadcast, and the sequence number from which on no further
\* flush or signal is run.
MaxClients == 2
MaxSubscribers == 1
MaxSequence == 3

\* ------------------------------------------------------- program constants
maxReconnectAttempts == 10
reconnectDelay == 1000
maxReconnectDelay == 30000
STREAMS_PER_CONNECTION == 50
BnMaxAttempts == 10
freshnessMs == 5000

\* ----------------------------------------------------------------- helpers
Min(a, b) == IF a < b THEN a ELSE b

RECURSIVE Pow2(_)
Pow2(n) == IF n <= 0 THEN 1 ELSE 2 * Pow2(n - 1)

Elems(seq) == {seq[i] : i \in DOMAIN seq}

\* The first occurrence of each element of an array, in order.
RECURSIVE Dedup(_)
Dedup(arr) ==
    IF Cardinality(Elems(arr)) = Len(arr) THEN arr
    ELSE LET last == arr[Len(arr)]
             front == SubSeq(arr, 1, Len(arr) - 1)
         IN IF last \in Elems(front) THEN Dedup(front)
            ELSE Append(Dedup(front), last)

\* Set.add for each element of an array, on an insertion-ordered Set.
AddAll(set, arr) ==
    LET have == Elems(set)
    IN set \o Dedup(SelectSeq(arr, LAMBDA x : x \notin have))

\* Set.delete for each element of an array.
DeleteAll(set, arr) ==
    LET gone == Elems(arr)
    IN SelectSeq(set, LAMBDA x : x \notin gone)

\* ------------------------------------------------------ sockets and timers
\* The sockets of the `ws` library that exist, as a bag of socket records:
\* sockets are told apart only by what the program can tell apart.
\* rs    : readyState (CLOSED only while a manager field still refers to it).
\* isWs  : the manager's ws field (Bybit: this.ws, Binance: conn.ws) is this
\*         socket.
\* idx, cur : the (index, conn) pair the socket's handlers closed over
\*         (Binance; cur = that conn record is still in this.connections).
\* pre   : history, the socket existed when disconnect() was last called.
NewSock(idx) ==
    [rs |-> "CONNECTING", isWs |-> TRUE, idx |-> idx, cur |-> TRUE, pre |-> FALSE]

BagAdd(bag, k) == bag (+) SetToBag({k})

BagDel(bag, k) == bag (-) SetToBag({k})

Live(socks) == {k \in BagToSet(socks) : k.rs \in {"CONNECTING", "OPEN", "CLOSING"}}

RECURSIVE CountIn(_, _)
CountIn(bag, kinds) ==
    IF kinds = {} THEN 0
    ELSE LET k == CHOOSE x \in kinds : TRUE
         IN CopiesIn(k, bag) + CountIn(bag, kinds \ {k})

\* Number of sockets that exist (connecting, open or closing).
LiveCount(socks) == CountIn(socks, Live(socks))

\* ws.close() on one socket record: an open or connecting socket starts
\* closing; its close event is delivered later.
WsClose(k) ==
    IF k.rs \in {"CONNECTING", "OPEN"} THEN [k EXCEPT !.rs = "CLOSING"] ELSE k

\* A pending setTimeout(callback, delay) of scheduleReconnect, as a bag of
\* [idx, delay, pre].
\* pre : history, the timer was pending when disconnect() was called, or was
\*       scheduled by the close event of a socket that existed then.
SetTimeout(timers, idx, delay, pre) ==
    BagAdd(timers, [idx |-> idx, delay |-> delay, pre |-> pre])

SetPre(k) == [k EXCEPT !.pre = TRUE]

\* disconnect() happened: everything that exists now predates it.  The
\* history is kept only in the runs that ask for it (s.hist).
MarkPre(s) ==
    IF s.hist
    THEN [s EXCEPT !.socks = BagOfAll(SetPre, @), !.timers = BagOfAll(SetPre, @)]
    ELSE s

\* ---------------------------------------------------------------- state
VARIABLES
    venue,  \* which component this run drives: "bybit", "binance" (streams
            \* below the per-connection cap), "split" (Binance, streams
            \* split over several connections), "merge", "ticker", "window",
            \* "ohlc", "metrics", "derive", "timers", "boards", "readers",
            \* "aggregate", "broadcast", "probe", "bybitConnector"
            \* or "binanceConnector"
    by,     \* the BybitWebSocketManager
    bn,     \* the BinanceWebSocketManager
    bc,     \* the BinanceConnector's fragment caches; "merge" drives them
    fr,     \* what a session's handleMessage did with the last frame
    now,    \* Date.now(), in milliseconds
    ms,     \* the Bybit ticker handler and the MarketStore; "ticker"
    rw,     \* one RollingWindow; "window" and "ohlc" drive it
    mm,     \* the MetricsManager; "ticker" feeds it, "metrics" and
            \* "derive" drive it
    api,    \* the WebSocketAPI; "timers" drives its timers, "broadcast"
            \* its consumers and its queue, "probe" its liveness probe
    lb,     \* the leaderboard stores and the aggregated store; "boards"
            \* drives update(), "readers" the ticks and the requests,
            \* "aggregate" the aggregation tick
    cn      \* the connector (BybitConnector or BinanceConnector) whose
            \* lifecycle "bybitConnector" and "binanceConnector" drive,
            \* over the session by or bn

vars == <<venue, by, bn, bc, fr, now, ms, rw, mm, api, lb, cn>>

\* The exchange sessions, and what lies downstream of them.
sessions == <<by, bn, bc>>
downstream == <<fr, now, ms, rw, mm, api, lb>>

\* =========================================================================
\* BybitWebSocketManager
\* =========================================================================
Topics == {"t1", "t2"}

\* The arrays handed to subscribe() and unsubscribe(): every order, and a
\* topic repeated.
TopicArrays == UNION {[1..n -> Topics] : n \in 0..Cardinality(Topics)}

\* sent  : the frames handed to ws.send() in the last step
\* unsub : the topics handed to unsubscribe() in the last step
ByInit(hist) ==
    [state |-> "disconnected", reconnectAttempts |-> 0,
     subscriptions |-> <<>>, isManualClose |-> FALSE,
     socks |-> EmptyBag, timers |-> EmptyBag, sent |-> <<>>, unsub |-> {},
     hist |-> hist]

\* The socket this.ws refers to, if any.
ByWs(s) == {k \in BagToSet(s.socks) : k.isWs}

\* this.ws?.readyState === WebSocket.OPEN
ByWsOpen(s) == \E k \in ByWs(s) : k.rs = "OPEN"

\* this.ws = <another value>: the socket it referred to lives on unreferenced,
\* unless it was closed already.
ByUnref(socks) ==
    LET old == {k \in BagToSet(socks) : k.isWs}
    IN IF old = {} THEN socks
       ELSE LET k == CHOOSE x \in old : TRUE
            IN IF k.rs = "CLOSED" THEN BagDel(socks, k)
               ELSE BagAdd(BagDel(socks, k), [k EXCEPT !.isWs = FALSE])

BySetState(s, newState) == [s EXCEPT !.state = newState]

BySend(s, op, args) == [s EXCEPT !.sent = Append(@, [op |-> op, args |-> args])]

\* Faulty variant: the topics are not filtered against the tracked set.
BySubscribeF_NoFilter(s, topics) ==
    IF ~ByWsOpen(s)
    THEN [s EXCEPT !.subscriptions = AddAll(@, topics)]
    ELSE IF topics = <<>> THEN s
         ELSE [BySend(s, "subscribe", topics)
                 EXCEPT !.subscriptions = AddAll(@, topics)]

BySubscribeF(s, topics) ==
    IF ~ByWsOpen(s)
    THEN [s EXCEPT !.subscriptions = AddAll(@, topics)]
    ELSE LET newTopics == SelectSeq(topics, LAMBDA t : t \notin Elems(s.subscriptions))
         IN IF newTopics = <<>> THEN s
            ELSE [BySend(s, "subscribe", newTopics)
                    EXCEPT !.subscriptions = AddAll(@, newTopics)]

ByUnsubscribeF(s, topics) ==
    LET s1 == [s EXCEPT !.unsub = Elems(topics)]
    IN IF ~ByWsOpen(s1) THEN s1
       ELSE [BySend(s1, "unsubscribe", topics)
               EXCEPT !.subscriptions = DeleteAll(@, topics)]

ByUnsubscribeAllF(s) ==
    IF Len(s.subscriptions) > 0 THEN ByUnsubscribeF(s, s.subscriptions) ELSE s

ByResubscribeAll(s) ==
    IF Len(s.subscriptions) > 0 THEN BySubscribeF(s, s.subscriptions) ELSE s

\* Faulty variant: the exponent is the attempt number, not the attempt number - 1.
ByDelay_NoMinusOne(n) == Min(reconnectDelay * Pow2(n), maxReconnectDelay)

ByDelay(n) == Min(reconnectDelay * Pow2(n - 1), maxReconnectDelay)

ByScheduleReconnect(s, pre) ==
    IF s.reconnectAttempts >= maxReconnectAttempts
    THEN BySetState(s, "error")
    ELSE LET n == s.reconnectAttempts + 1
         IN [BySetState(s, "reconnecting")
               EXCEPT !.reconnectAttempts = n,
                      !.timers = SetTimeout(@, 0, ByDelay(n), pre)]

ByConnectF(s) ==
    IF ByWsOpen(s) THEN s
    ELSE LET s1 == BySetState([s EXCEPT !.isManualClose = FALSE], "connecting")
         IN [s1 EXCEPT !.socks = BagAdd(ByUnref(@), NewSock(0))]

ByDisconnectF(s) ==
    LET s1 == [s EXCEPT !.isManualClose = TRUE]
        s2 == IF ByWs(s1) # {}
              THEN LET k == CHOOSE x \in ByWs(s1) : TRUE
                   IN [s1 EXCEPT !.socks = ByUnref(BagAdd(BagDel(@, k), WsClose(k)))]
              ELSE s1
    IN MarkPre(BySetState(s2, "disconnected"))

\* ws.on("open") of a socket of kind k
ByOnOpen(s, k) ==
    LET s1 == [BySetState([s EXCEPT !.socks = BagAdd(BagDel(@, k), [k EXCEPT !.rs = "OPEN"])],
                          "connected")
                 EXCEPT !.reconnectAttempts = 0]
    IN IF Len(s1.subscriptions) > 0 THEN ByResubscribeAll(s1) ELSE s1

\* ws.on("close") of a socket of kind k
ByOnClose(s, k) ==
    LET s1 == [s EXCEPT !.socks = IF k.isWs
                                  THEN BagAdd(BagDel(@, k), [k EXCEPT !.rs = "CLOSED"])
                                  ELSE BagDel(@, k)]
        s2 == BySetState(s1, "disconnected")
    IN IF ~s2.isManualClose THEN ByScheduleReconnect(s2, k.pre) ELSE s2

\* the setTimeout callback of scheduleReconnect
ByOnTimer(s, t) ==
    LET s1 == [s EXCEPT !.timers = BagDel(@, t)]
    IN IF ~s1.isManualClose THEN ByConnectF(s1) ELSE s1

\* Room for the socket connect() would create.
ByRoom(s) == ByWsOpen(s) \/ LiveCount(s.socks) < MaxSockets

ByStart(s) == [s EXCEPT !.sent = <<>>, !.unsub = {}]

\* ------------------------------------------------------------ Bybit actions
ByConnect ==
    /\ venue = "bybit"
    /\ ByRoom(by)
    /\ by' = ByConnectF(ByStart(by))
    /\ UNCHANGED <<venue, cn, bn, bc, downstream>>

ByDisconnect ==
    /\ venue = "bybit"
    /\ by' = ByDisconnectF(ByStart(by))
    /\ UNCHANGED <<venue, cn, bn, bc, downstream>>

BySubscribe(topics) ==
    /\ venue = "bybit"
    /\ by' = BySubscribeF(ByStart(by), topics)
    /\ UNCHANGED <<venue, cn, bn, bc, downstream>>

ByUnsubscribe(topics) ==
    /\ venue = "bybit"
    /\ by' = ByUnsubscribeF(ByStart(by), topics)
    /\ UNCHANGED <<venue, cn, bn, bc, downstream>>

ByUnsubscribeAll ==
    /\ venue = "bybit"
    /\ by' = ByUnsubscribeAllF(ByStart(by))
    /\ UNCHANGED <<venue, cn, bn, bc, downstream>>

BySockOpen(k) ==
    /\ venue = "bybit"
    /\ k.rs = "CONNECTING"
    /\ by' = ByOnOpen(ByStart(by), k)
    /\ UNCHANGED <<venue, cn, bn, bc, downstream>>

BySockClose(k) ==
    /\ venue = "bybit"
    /\ \/ by.isManualClose
       \/ by.reconnectAttempts >= maxReconnectAttempts
       \/ BagCardinality(by.timers) < MaxTimers
    /\ by' = ByOnClose(ByStart(by), k)
    /\ UNCHANGED <<venue, cn, bn, bc, downstream>>

ByTimerFire(t) ==
    /\ venue = "bybit"
    /\ by.isManualClose \/ ByRoom(by)
    /\ by' = ByOnTimer(ByStart(by), t)
    /\ UNCHANGED <<venue, cn, bn, bc, downstream>>

NextBybit ==
    \/ ByConnect
    \/ ByDisconnect
    \/ \E topics \in TopicArrays : BySubscribe(topics)
    \/ \E topics \in TopicArrays : ByUnsubscribe(topics)
    \/ ByUnsubscribeAll
    \/ \E k \in Live(by.socks) : BySockOpen(k)
    \/ \E k \in Live(by.socks) : BySockClose(k)
    \/ \E t \in BagToSet(by.timers) : ByTimerFire(t)

\* =========================================================================
\* BinanceWebSocketManager
\* =========================================================================
\* Stream names are numbers; subscribe()/unsubscribe() are handed the arrays
\* Range(a, b) of whole blocks of StreamBlock names.
Range(a, b) == [i \in 1..(b - a + 1) |-> a + i - 1]

BlockArrays(first, all) ==
    {<<>>, Range(1, first), Range(first + 1, all), Range(1, all)}

SplitArrays == BlockArrays(StreamBlock, 3 * StreamBlock)

\* Sockets that exist at once in the runs that split the streams: as many as
\* the connections all the stream names need.
MaxSplitSockets ==
    (3 * StreamBlock + STREAMS_PER_CONNECTION - 1) \div STREAMS_PER_CONNECTION

SmallArrays == BlockArrays(SmallBlock, 2 * SmallBlock)

StreamArrays == IF venue = "split" THEN SplitArrays ELSE SmallArrays

BnInit(hist) ==
    [connections |-> <<>>, state |-> "disconnected",
     subscribedStreams |-> <<>>, isManualClose |-> FALSE,
     socks |-> EmptyBag, timers |-> EmptyBag, hist |-> hist]

BnNewConn(streams) ==
    [streams |-> streams, isConnected |-> FALSE, reconnectAttempts |-> 0]

\* The socket connections[i].ws refers to, if any.
BnWs(s, i) == {k \in BagToSet(s.socks) : k.cur /\ k.idx = i /\ k.isWs}

\* conn.ws = null on one socket record of a conn of this.connections.
BnNull(k) == IF k.cur /\ k.isWs THEN [k EXCEPT !.isWs = FALSE] ELSE k

BnNullAt(i, k) == IF k.idx = i THEN BnNull(k) ELSE k

\* conn.ws.close(); conn.ws = null
BnCloseWs(k) == IF k.cur /\ k.isWs THEN BnNull(WsClose(k)) ELSE k

\* The conn records are replaced: handlers of the sockets that exist keep the
\* old records.
BnStale(k) == [k EXCEPT !.cur = FALSE, !.isWs = FALSE]

BnSetState(s, newState) == [s EXCEPT !.state = newState]

BnConnectedCount(s) ==
    Cardinality({i \in DOMAIN s.connections : s.connections[i].isConnected})

\* Faulty variant: "some connection is up" tested as >= 0.
BnUpdateOverallState_AnyCount(s) ==
    IF Len(s.connections) = 0 THEN BnSetState(s, "disconnected")
    ELSE BnSetState(s, "connected")

BnUpdateOverallState(s) ==
    LET connectedCount == BnConnectedCount(s)
        totalConnections == Len(s.connections)
    IN IF totalConnections = 0 THEN BnSetState(s, "disconnected")
       ELSE IF connectedCount = totalConnections THEN BnSetState(s, "connected")
       ELSE IF connectedCount > 0 THEN BnSetState(s, "connected")
       ELSE BnSetState(s, "disconnected")

BnConnectConnection(s, i) ==
    IF i \notin DOMAIN s.connections \/ (\E k \in BnWs(s, i) : k.rs = "OPEN") THEN s
    ELSE [s EXCEPT !.socks =
            BagAdd(BagOfAll(LAMBDA k : BnNullAt(i, k), @), NewSock(i))]

RECURSIVE BnConnectFrom(_, _)
BnConnectFrom(s, i) ==
    IF i > Len(s.connections) THEN s
    ELSE BnConnectFrom(BnConnectConnection(s, i), i + 1)

BnConnectF(s) ==
    IF Len(s.connections) = 0 THEN s
    ELSE BnConnectFrom(BnSetState([s EXCEPT !.isManualClose = FALSE], "connecting"), 1)

BnDisconnectF(s) ==
    LET s1 == [s EXCEPT !.isManualClose = TRUE,
                        !.socks = BagOfAll(BnCloseWs, @),
                        !.connections = [i \in DOMAIN @ |->
                                            [@[i] EXCEPT !.isConnected = FALSE]]]
    IN MarkPre(BnSetState(s1, "disconnected"))

\* Faulty variant: slices one longer than the step (slice(i, i + cap + 1)).
RECURSIVE BnChunks_Overlap(_)
BnChunks_Overlap(allStreams) ==
    IF allStreams = <<>> THEN <<>>
    ELSE <<SubSeq(allStreams, 1, Min(STREAMS_PER_CONNECTION + 1, Len(allStreams)))>>
         \o BnChunks_Overlap(SubSeq(allStreams, STREAMS_PER_CONNECTION + 1, Len(allStreams)))

\* allStreams.slice(i, i + STREAMS_PER_CONNECTION) for i = 0, 50, 100, ...
RECURSIVE BnChunks(_)
BnChunks(allStreams) ==
    IF allStreams = <<>> THEN <<>>
    ELSE <<SubSeq(allStreams, 1, Min(STREAMS_PER_CONNECTION, Len(allStreams)))>>
         \o BnChunks(SubSeq(allStreams, STREAMS_PER_CONNECTION + 1, Len(allStreams)))

BnReorganizeConnections(s) ==
    LET chunks == BnChunks(s.subscribedStreams)
        s1 == [s EXCEPT !.socks = BagOfAll(LAMBDA k : BnStale(BnCloseWs(k)), @),
                        !.connections = [i \in DOMAIN chunks |-> BnNewConn(chunks[i])]]
    IN BnConnectF(s1)

BnSubscribeF(s, streams) ==
    LET have == Elems(s.subscribedStreams)
        newStreams == SelectSeq(streams, LAMBDA x : x \notin have)
    IN IF newStreams = <<>> THEN s
       ELSE BnReorganizeConnections(
                [s EXCEPT !.subscribedStreams = AddAll(@, newStreams)])

BnUnsubscribeF(s, streams) ==
    LET s1 == [s EXCEPT !.subscribedStreams = DeleteAll(@, streams)]
    IN IF Len(s1.subscribedStreams) > 0 THEN BnReorganizeConnections(s1)
       ELSE BnDisconnectF(s1)

BnUnsubscribeAllF(s) == BnDisconnectF([s EXCEPT !.subscribedStreams = <<>>])

BnDelay(n) == Min(reconnectDelay * Pow2(n - 1), maxReconnectDelay)

BnScheduleReconnect(s, i, pre) ==
    IF i \notin DOMAIN s.connections THEN s
    ELSE IF s.connections[i].reconnectAttempts >= BnMaxAttempts THEN s
    ELSE LET n == s.connections[i].reconnectAttempts + 1
         IN [s EXCEPT !.connections[i].reconnectAttempts = n,
                      !.timers = SetTimeout(@, i, BnDelay(n), pre)]

\* conn.ws.on("open") of a socket of kind k
BnOnOpen(s, k) ==
    LET s1 == [s EXCEPT !.socks = BagAdd(BagDel(@, k), [k EXCEPT !.rs = "OPEN"])]
        s2 == IF k.cur
              THEN [s1 EXCEPT !.connections[k.idx].isConnected = TRUE,
                              !.connections[k.idx].reconnectAttempts = 0]
              ELSE s1
    IN BnUpdateOverallState(s2)

\* conn.ws.on("close") of a socket of kind k
BnOnClose(s, k) ==
    LET s1 == [s EXCEPT !.socks = BagDel(@, k)]
        s2 == IF k.cur
              THEN [s1 EXCEPT !.connections[k.idx].isConnected = FALSE,
                              !.socks = BagOfAll(LAMBDA x : BnNullAt(k.idx, x), @)]
              ELSE s1
        s3 == BnUpdateOverallState(s2)
    IN IF ~s3.isManualClose THEN BnScheduleReconnect(s3, k.idx, k.pre) ELSE s3

\* the setTimeout callback of scheduleReconnect
BnOnTimer(s, t) ==
    LET s1 == [s EXCEPT !.timers = BagDel(@, t)]
    IN IF ~s1.isManualClose THEN BnConnectConnection(s1, t.idx) ELSE s1

\* The step stays within the bounds on sockets and timers.
Fits(s) ==
    /\ LiveCount(s.socks) <= (IF venue = "split" THEN MaxSplitSockets ELSE MaxSockets)
    /\ BagCardinality(s.timers) <= MaxTimers

\* The runs that split the streams drive no connection beyond MaxSplitRetries
\* retries.
RetriesFit(s) ==
    venue = "split" =>
        \A i \in DOMAIN s.connections :
            s.connections[i].reconnectAttempts <= MaxSplitRetries

\* ---------------------------------------------------------- Binance actions
BnStep(s) ==
    /\ venue \in {"binance", "split"}
    /\ Fits(s)
    /\ RetriesFit(s)
    /\ bn' = s
    /\ UNCHANGED <<venue, cn, by, bc, downstream>>

BnConnect == BnStep(BnConnectF(bn))

BnDisconnect == BnStep(BnDisconnectF(bn))

BnSubscribe(streams) == BnStep(BnSubscribeF(bn, streams))

BnUnsubscribe(streams) == BnStep(BnUnsubscribeF(bn, streams))

BnUnsubscribeAll == BnStep(BnUnsubscribeAllF(bn))

BnSockOpen(k) == k.rs = "CONNECTING" /\ BnStep(BnOnOpen(bn, k))

BnSockClose(k) == BnStep(BnOnClose(bn, k))

BnTimerFire(t) == BnStep(BnOnTimer(bn, t))

NextBinance ==
    \/ BnConnect
    \/ BnDisconnect
    \/ \E streams \in StreamArrays : BnSubscribe(streams)
    \/ \E streams \in StreamArrays : BnUnsubscribe(streams)
    \/ BnUnsubscribeAll
    \/ \E k \in Live(bn.socks) : BnSockOpen(k)
    \/ \E k \in Live(bn.socks) : BnSockClose(k)
    \/ \E t \in BagToSet(bn.timers) : BnTimerFire(t)

\* =========================================================================
\* BinanceConnector: merging the ticker, markPrice and bookTicker streams
\* =========================================================================
\* A field a frame does not carry.
Undefined == "undefined"

\* Field texts: the decimal texts of 1..MaxPrice and one text that is no
\* number.
DecimalText == <<"1", "2", "3", "4", "5", "6", "7", "8", "9">>

FieldTexts == {DecimalText[i] : i \in 1..MaxPrice} \cup {"abc"}

\* parseFloat(text); NaN is written as <<>>, a number n as <<n>>.
ParseFloat(text) ==
    IF \E i \in DOMAIN DecimalText : DecimalText[i] = text
    THEN <<CHOOSE i \in DOMAIN DecimalText : DecimalText[i] = text>>
    ELSE <<>>

\* x || 0
OrZero(x) == IF x = <<>> \/ x = <<0>> THEN <<0>> ELSE x

\* streamParts[0].toUpperCase()
ToUpperCase(text) ==
    CASE text = "btcusdt" -> "BTCUSDT"
      [] text = "ethusdt" -> "ETHUSDT"
      [] OTHER -> text

Symbols == {"BTCUSDT", "ETHUSDT"}

None == [e |-> Undefined]

NoFrame == [stream |-> <<>>, data |-> None]

\* msg.stream.split("@") of the frames the manager hands over.
StreamParts ==
    {<<"btcusdt", "ticker">>, <<"btcusdt", "markPrice", "1s">>,
     <<"btcusdt", "bookTicker">>, <<"btcusdt", "depth">>, <<"btcusdt">>,
     <<"ethusdt", "ticker">>, <<"ethusdt", "markPrice", "1s">>}

\* msg.data: 24hrTicker frames (with or without the last price c),
\* markPriceUpdate frames and bookTicker frames.
StreamData ==
    {[e |-> "24hrTicker", s |-> "BTCUSDT", c |-> c, b |-> b, p |-> Undefined] :
        c \in FieldTexts \cup {Undefined}, b \in {"1"}}
    \cup {[e |-> "markPriceUpdate", s |-> "BTCUSDT", c |-> Undefined,
           b |-> Undefined, p |-> p] : p \in FieldTexts}
    \cup {[e |-> "bookTicker", s |-> "BTCUSDT", c |-> Undefined, b |-> b,
           p |-> Undefined] : b \in FieldTexts}

\* emitted : the snapshots emitted as "market" events in the last step
\* last    : the frame handled in the last step, if it was accepted
\* seen    : history, the frame of each kind last accepted for each symbol
BcInit ==
    [tickerCache |-> [sym \in Symbols |-> None],
     markPriceCache |-> [sym \in Symbols |-> None],
     bookTickerCache |-> [sym \in Symbols |-> None],
     emitted |-> <<>>,
     last |-> NoFrame,
     seen |-> [sym \in Symbols |->
                  [ticker |-> None, markPrice |-> None, bookTicker |-> None]]]

validateBinanceTicker(data) ==
    /\ data.e = "24hrTicker"
    /\ data.s # Undefined
    /\ data.c # Undefined

\* Faulty variant: the best bid is always the ticker's.
normalizeBinanceTicker_TickerBid(exchangeSymbol, tickerData, markPriceData, bookTickerData) ==
    [exchangeSymbol |-> exchangeSymbol,
     lastPrice |-> OrZero(ParseFloat(tickerData.c)),
     markPrice |-> IF markPriceData # None
                   THEN [value |-> ParseFloat(markPriceData.p)] ELSE [null |-> TRUE],
     bestBid |-> OrZero(ParseFloat(tickerData.b))]

\* The snapshot, as far as the three streams feed it.
normalizeBinanceTicker(exchangeSymbol, tickerData, markPriceData, bookTickerData) ==
    [exchangeSymbol |-> exchangeSymbol,
     lastPrice |-> OrZero(ParseFloat(tickerData.c)),
     markPrice |-> IF markPriceData # None
                   THEN [value |-> ParseFloat(markPriceData.p)] ELSE [null |-> TRUE],
     bestBid |-> IF bookTickerData # None
                 THEN ParseFloat(bookTickerData.b)
                 ELSE OrZero(ParseFloat(tickerData.b))]

emitMarketUpdate(s, symbol) ==
    LET ticker == s.tickerCache[symbol]
    IN IF ticker = None THEN s
       ELSE [s EXCEPT !.emitted =
                Append(@, normalizeBinanceTicker(symbol, ticker,
                              s.markPriceCache[symbol], s.bookTickerCache[symbol]))]

handleStreamMessage(s, msg) ==
    LET streamParts == msg.stream
    IN IF Len(streamParts) < 2 THEN s
       ELSE LET symbol == ToUpperCase(streamParts[1])
                streamType == streamParts[2]
            IN IF streamType = "ticker"
               THEN IF validateBinanceTicker(msg.data)
                    THEN emitMarketUpdate(
                             [s EXCEPT !.tickerCache[symbol] = msg.data], symbol)
                    ELSE s
               ELSE IF streamType = "markPrice"
               THEN IF msg.data.e = "markPriceUpdate"
                    THEN emitMarketUpdate(
                             [s EXCEPT !.markPriceCache[symbol] = msg.data], symbol)
                    ELSE s
               ELSE IF streamType = "bookTicker"
               THEN IF msg.data.e = "bookTicker"
                    THEN emitMarketUpdate(
                             [s EXCEPT !.bookTickerCache[symbol] = msg.data], symbol)
                    ELSE s
               ELSE s

\* The kind of fragment a frame is accepted as, "" if it is not accepted.
AcceptedAs(msg) ==
    IF Len(msg.stream) < 2 THEN ""
    ELSE LET type == msg.stream[2]
             d == msg.data
         IN IF type = "ticker" /\ d.e = "24hrTicker" /\ d.c # Undefined
            THEN "ticker"
            ELSE IF type = "markPrice" /\ d.e = "markPriceUpdate" THEN "markPrice"
            ELSE IF type = "bookTicker" /\ d.e = "bookTicker" THEN "bookTicker"
            ELSE ""

\* The history after a frame.
Seen(seen, msg) ==
    IF AcceptedAs(msg) = "" THEN seen
    ELSE [seen EXCEPT ![ToUpperCase(msg.stream[1])][AcceptedAs(msg)] = msg.data]

\* The manager's "message" event.
BcMessage(msg) ==
    /\ venue = "merge"
    /\ bc' = [handleStreamMessage([bc EXCEPT !.emitted = <<>>], msg)
                EXCEPT !.last = IF AcceptedAs(msg) = "" THEN NoFrame ELSE msg,
                       !.seen = Seen(@, msg)]
    /\ UNCHANGED <<venue, cn, by, bn, downstream>>

NextMerge == \E stream \in StreamParts, data \in StreamData :
                 BcMessage([stream |-> stream, data |-> data])

\* =========================================================================
\* handleMessage of the two sessions
\* =========================================================================
\* A frame is its text as JSON.parse sees it: `syntax` is "bad" for a text
\* that is no JSON, "null" for the JSON null, "object" for an object with
\* the fields op, label (topic on Bybit, stream on Binance) and data; a field
\* the object does not carry is Undefined, an empty string is "".
Frames ==
    [syntax : {"bad", "null"}, op : {Undefined}, label : {Undefined},
     data : {Undefined}]
    \cup
    [syntax : {"object"}, op : {Undefined, "subscribe", "pong"},
     label : {Undefined, "", "tickers.BTCUSDT"}, data : {Undefined, "d"}]

\* x is truthy
Truthy(x) == x # Undefined /\ x # ""

\* emitted : the "message" event of the last frame, if it emitted one
\* raised  : the last handleMessage threw to its caller
\* syntax  : the syntax of the last frame
Dropped == [emitted |-> None, raised |-> FALSE]

FrInit == [emitted |-> None, raised |-> FALSE, syntax |-> ""]

\* Faulty variant: every frame that parses to an object is emitted.
ByHandleMessage_NoGuard(frame) ==
    IF frame.syntax = "object"
    THEN [emitted |-> [label |-> frame.label, data |-> frame.data],
          raised |-> FALSE]
    ELSE Dropped

\* BybitWebSocketManager.handleMessage(data).  JSON.parse throws on a bad
\* text and message.op throws on null; both are caught and logged.
ByHandleMessage(frame) ==
    IF frame.syntax \in {"bad", "null"} THEN Dropped
    ELSE IF frame.op \in {"subscribe", "unsubscribe"} THEN Dropped
    ELSE IF frame.op = "pong" THEN Dropped
    ELSE IF Truthy(frame.label) /\ Truthy(frame.data)
         THEN [emitted |-> [label |-> frame.label, data |-> frame.data],
               raised |-> FALSE]
         ELSE Dropped

\* BinanceWebSocketManager.handleMessage(data, connectionIndex)
BnHandleMessage(frame, connectionIndex) ==
    IF frame.syntax \in {"bad", "null"} THEN Dropped
    ELSE IF Truthy(frame.label) /\ Truthy(frame.data)
         THEN [emitted |-> [label |-> frame.label, data |-> frame.data,
                            connectionIndex |-> connectionIndex],
               raised |-> FALSE]
         ELSE Dropped

Handled(result, frame) ==
    [emitted |-> result.emitted, raised |-> result.raised,
     syntax |-> frame.syntax]

\* A frame arrives on an open socket.
ByMessage(frame) ==
    /\ venue = "bybit"
    /\ \E k \in BagToSet(by.socks) : k.rs = "OPEN"
    /\ fr' = Handled(ByHandleMessage(frame), frame)
    /\ by' = ByStart(by)
    /\ UNCHANGED <<venue, cn, bn, bc, now, ms, rw, mm, api, lb>>

BnMessage(frame, k) ==
    /\ venue = "binance"
    /\ k.rs = "OPEN"
    /\ fr' = Handled(BnHandleMessage(frame, k.idx), frame)
    /\ UNCHANGED <<venue, cn, sessions, now, ms, rw, mm, api, lb>>

\* The sessions connect, subscribe and lose their sockets, and frames arrive
\* on the open sockets.
NextFrames ==
    \/ ByConnect
    \/ \E topics \in TopicArrays : BySubscribe(topics)
    \/ \E k \in Live(by.socks) : BySockOpen(k)
    \/ \E k \in Live(by.socks) : BySockClose(k)
    \/ \E frame \in Frames : ByMessage(frame)
    \/ BnConnect
    \/ \E streams \in StreamArrays : BnSubscribe(streams)
    \/ \E k \in Live(bn.socks) : BnSockOpen(k)
    \/ \E k \in Live(bn.socks) : BnSockClose(k)
    \/ \E frame \in Frames, k \in BagToSet(bn.socks) : BnMessage(frame, k)

\* =========================================================================
\* RollingWindow
\* =========================================================================
\* A window is a record; `buckets` is a function from the indices of the
\* array whose entry is not null to the bucket there.  A bucket value of the
\* price family is [open, high, low, close, volume]; the low of the default
\* value, Infinity, is written <<>>, a finite low n as <<n>>.
Infinity == <<>>

Max(a, b) == IF a > b THEN a ELSE b

\* Math.min on lows.
MinLow(a, b) ==
    IF a = Infinity THEN b
    ELSE IF b = Infinity THEN a
    ELSE <<Min(a[1], b[1])>>

\* createPriceWindow: defaultValue
PriceDefault ==
    [open |-> 0, high |-> 0, low |-> Infinity, close |-> 0, volume |-> 0]

\* Faulty variant: the open follows the value merged last.
PriceAggregator_LatestOpen(a, b) ==
    [open |-> IF b.open # 0 THEN b.open ELSE a.open,
     high |-> Max(a.high, b.high),
     low |-> MinLow(a.low, b.low),
     close |-> IF b.close # 0 THEN b.close ELSE a.close,
     volume |-> a.volume + b.volume]

\* createPriceWindow: aggregator; x || y takes y when x is 0.
PriceAggregator(a, b) ==
    [open |-> IF a.open # 0 THEN a.open ELSE b.open,
     high |-> Max(a.high, b.high),
     low |-> MinLow(a.low, b.low),
     close |-> IF b.close # 0 THEN b.close ELSE a.close,
     volume |-> a.volume + b.volume]

\* createVolumeWindow: aggregator
VolumeAggregator(a, b) ==
    [buyVolume |-> a.buyVolume + b.buyVolume,
     sellVolume |-> a.sellVolume + b.sellVolume,
     totalVolume |-> a.totalVolume + b.totalVolume,
     tradeCount |-> a.tradeCount + b.tradeCount]

\* new RollingWindow(bucketSizeMs, bucketCount, ...) at time t; the field
\* aggregator names the function the window was given.
createPriceWindow(bucketSizeMs, bucketCount, t) ==
    [bucketSizeMs |-> bucketSizeMs, bucketCount |-> bucketCount,
     buckets |-> <<>>, currentIndex |-> 0, lastBucketTime |-> t,
     aggregator |-> "price"]

createVolumeWindow(bucketSizeMs, bucketCount, t) ==
    [bucketSizeMs |-> bucketSizeMs, bucketCount |-> bucketCount,
     buckets |-> <<>>, currentIndex |-> 0, lastBucketTime |-> t,
     aggregator |-> "volume"]

\* this.aggregator(a, b)
Aggregator(w, a, b) ==
    IF w.aggregator = "volume" THEN VolumeAggregator(a, b)
    ELSE PriceAggregator(a, b)

\* this.buckets[idx] = null for every idx of idxs
NullAt(buckets, idxs) == [i \in DOMAIN buckets \ idxs |-> buckets[i]]

\* this.buckets[index] = bucket
SetAt(buckets, index, bucket) ==
    [i \in DOMAIN buckets \cup {index} |->
        IF i = index THEN bucket ELSE buckets[i]]

\* Math.floor(elapsed / bucketSizeMs)
bucketsToAdvance(w, timestamp) ==
    (timestamp - w.lastBucketTime) \div w.bucketSizeMs

\* Faulty variant: the cursor follows a timestamp that lies before the
\* current bucket.
advanceToTime_NoGuard(w, timestamp) ==
    LET n == bucketsToAdvance(w, timestamp)
    IN [w EXCEPT !.currentIndex = (@ + n) % w.bucketCount,
                 !.lastBucketTime = @ + n * w.bucketSizeMs]

advanceToTime(w, timestamp) ==
    LET n == bucketsToAdvance(w, timestamp)
        skipped == {(w.currentIndex + i) % w.bucketCount :
                        i \in 1..(Min(n, w.bucketCount) - 1)}
    IN IF n > 0
       THEN [w EXCEPT !.buckets = NullAt(@, skipped),
                      !.currentIndex = (@ + n) % w.bucketCount,
                      !.lastBucketTime = @ + n * w.bucketSizeMs]
       ELSE w

\* t is Date.now()
mergeToBucket(w, index, value, t) ==
    IF index \notin DOMAIN w.buckets
          \/ w.buckets[index].timestamp < t - w.bucketSizeMs
    THEN [w EXCEPT !.buckets =
             SetAt(@, index, [timestamp |-> t, value |-> value])]
    ELSE [w EXCEPT !.buckets =
             SetAt(@, index,
                   [timestamp |-> w.buckets[index].timestamp,
                    value |-> Aggregator(w, w.buckets[index].value, value)])]

\* add(value, timestamp) at time t
add(w, value, timestamp, t) ==
    LET w1 == advanceToTime(w, timestamp)
    IN mergeToBucket(w1, w1.currentIndex, value, t)

\* The aggregator folded, from index i on, over every bucket that is not
\* older than the cutoff.
RECURSIVE FoldFrom(_, _, _, _)
FoldFrom(w, i, cutoff, result) ==
    IF i >= w.bucketCount THEN result
    ELSE IF i \in DOMAIN w.buckets /\ w.buckets[i].timestamp >= cutoff
         THEN FoldFrom(w, i + 1, cutoff,
                       PriceAggregator(result, w.buckets[i].value))
         ELSE FoldFrom(w, i + 1, cutoff, result)

\* aggregate(bucketCount) at time t: the loop returns at the first bucket,
\* in index order, that is not older than the cutoff.
aggregate(w, bucketCount, t) ==
    LET cutoff == t - bucketCount * w.bucketSizeMs
        within == {i \in DOMAIN w.buckets : w.buckets[i].timestamp >= cutoff}
    IN IF within = {} THEN PriceDefault
       ELSE LET first == CHOOSE i \in within : \A j \in within : i <= j
            IN PriceAggregator(PriceDefault, w.buckets[first].value)

\* Array.prototype.sort by timestamp (stable) of the buckets at idxs.
RECURSIVE SortByTime(_, _)
SortByTime(buckets, idxs) ==
    IF idxs = {} THEN <<>>
    ELSE LET first == CHOOSE i \in idxs : \A j \in idxs :
                          \/ buckets[i].timestamp < buckets[j].timestamp
                          \/ /\ buckets[i].timestamp = buckets[j].timestamp
                             /\ i <= j
         IN <<buckets[first]>> \o SortByTime(buckets, idxs \ {first})

getRange(w, startTime, endTime) ==
    SortByTime(w.buckets,
               {i \in DOMAIN w.buckets :
                    /\ w.buckets[i].timestamp >= startTime
                    /\ w.buckets[i].timestamp <= endTime})

\* =========================================================================
\* MetricsManager
\* =========================================================================
InstrumentIds == {"bybit:BTC-USDT-PERP", "bybit:ETH-USDT-PERP"}

\* intervals  : the setInterval timers not cleared; `held` marks the one
\*              this.computeInterval refers to
\* tickedAt   : <<t>> if the last step ran computeAll(), at time t
\* prev       : the records, before the last computeAll(), of the instruments
\*              whose derivation threw in it
\* stopped    : stop() was called, and start() was not called since
\* threw      : the instruments whose derivation threw in the last step
\* raised     : the last step's computeAll() threw to its caller
\* delivered  : per instrument, the last price and the time of each snapshot
\*              handed to updateMarket()
\* trades     : the trades handed to updateTrade()
MmInit ==
    [metrics |-> <<>>, contexts |-> <<>>, intervals |-> EmptyBag,
     tickedAt |-> <<>>, prev |-> <<>>, threw |-> {}, raised |-> FALSE,
     stopped |-> FALSE,
     delivered |-> [id \in InstrumentIds |-> <<>>], trades |-> 0]

\* The PriceBucket updateMarket() builds from the last price of a snapshot.
PriceBucket(lastPrice) ==
    [open |-> lastPrice, high |-> lastPrice, low |-> <<lastPrice>>,
     close |-> lastPrice, volume |-> 0]

initializeMarket(m, market, t) ==
    [m EXCEPT !.contexts =
        SetAt(@, market.id,
              [market |-> market,
               priceWindow1m |-> createPriceWindow(1000, 60, t),
               priceWindow5m |-> createPriceWindow(1000, 300, t),
               priceWindow15m |-> createPriceWindow(1000, 900, t),
               priceWindow1h |-> createPriceWindow(1000, 3600, t),
               volumeWindow1m |-> createVolumeWindow(1000, 60, t),
               volumeWindow5m |-> createVolumeWindow(1000, 300, t),
               volumeWindow15m |-> createVolumeWindow(1000, 900, t),
               volumeWindow1h |-> createVolumeWindow(1000, 3600, t)])]

\* updateMarket(market) at time t; add() is called without a timestamp, so
\* with Date.now().
updateMarket(m, market, t) ==
    IF market.id \notin DOMAIN m.contexts
    THEN initializeMarket(m, market, t)
    ELSE LET priceBucket == PriceBucket(market.lastPrice)
         IN [m EXCEPT !.contexts[market.id] =
               [@ EXCEPT
                   !.market = market,
                   !.priceWindow1m = add(@, priceBucket, t, t),
                   !.priceWindow5m = add(@, priceBucket, t, t),
                   !.priceWindow15m = add(@, priceBucket, t, t),
                   !.priceWindow1h = add(@, priceBucket, t, t)]]

\* The context key updateTrade() builds: trade.id.split(":")[0] + ":" +
\* trade.symbol.
TradeKey(trade) ==
    CASE trade.exchange = "bybit" /\ trade.symbol = "BTC-USDT-PERP"
             -> "bybit:BTC-USDT-PERP"
      [] trade.exchange = "bybit" /\ trade.symbol = "ETH-USDT-PERP"
             -> "bybit:ETH-USDT-PERP"
      [] OTHER -> "binance:BTC-USDT-PERP"

\* updateTrade(trade) at time t
updateTrade(m, trade, t) ==
    IF TradeKey(trade) \notin DOMAIN m.contexts THEN m
    ELSE LET volumeBucket ==
                 [buyVolume |-> IF trade.side = "buy"
                                THEN trade.quoteQuantity ELSE 0,
                  sellVolume |-> IF trade.side = "sell"
                                 THEN trade.quoteQuantity ELSE 0,
                  totalVolume |-> trade.quoteQuantity,
                  tradeCount |-> 1]
         IN [m EXCEPT !.contexts[TradeKey(trade)] =
               [@ EXCEPT
                   !.volumeWindow1m = add(@, volumeBucket, t, t),
                   !.volumeWindow5m = add(@, volumeBucket, t, t),
                   !.volumeWindow15m = add(@, volumeBucket, t, t),
                   !.volumeWindow1h = add(@, volumeBucket, t, t)]]

\* calculatePriceChange(window) at time t.  The percentage is kept in
\* hundredths of a percent, rounded down.
calculatePriceChange(w, t) ==
    LET buckets == getRange(w, t - w.bucketSizeMs * w.bucketCount, t)
        first == buckets[1].value.close
        last == buckets[Len(buckets)].value.close
    IN IF Len(buckets) < 2 THEN [absolute |-> 0, percent |-> 0]
       ELSE IF first = 0 THEN [absolute |-> 0, percent |-> 0]
       ELSE [absolute |-> last - first,
             percent |-> ((last - first) * 100 * 100) \div first]

\* calculatePriceVelocity(window) at time t, in hundredths of a percent per
\* minute, rounded down.
calculatePriceVelocity(w, t) ==
    LET buckets == getRange(w, t - 60000, t)
        first == buckets[1].value.close
        last == buckets[Len(buckets)].value.close
        elapsed == buckets[Len(buckets)].timestamp - buckets[1].timestamp
    IN IF Len(buckets) < 2 THEN 0
       ELSE IF first = 0 \/ elapsed = 0 THEN 0
       ELSE ((last - first) * 60000 * 100 * 100) \div (first * elapsed)

\* Faulty variant: the older velocity is the one of a second ago.
calculatePriceAcceleration_Earlier(w, t, u) ==
    calculatePriceVelocity(w, t) - calculatePriceVelocity(w, u - 1000)

\* calculatePriceAcceleration(window): the first evaluation of the velocity
\* reads the clock at t, the second at u.
calculatePriceAcceleration(w, t, u) ==
    LET recent == calculatePriceVelocity(w, t)
        older == calculatePriceVelocity(w, u)
    IN  recent - older

\* buckets.reduce((sum, bucket) => sum + (buyVolume - sellVolume), 0)
RECURSIVE SumDelta(_)
SumDelta(buckets) ==
    IF buckets = <<>> THEN 0
    ELSE SumDelta(SubSeq(buckets, 1, Len(buckets) - 1))
             + (buckets[Len(buckets)].value.buyVolume
                    - buckets[Len(buckets)].value.sellVolume)

\* Faulty variant: the volume of both sides is summed.
calculateCVD_Total(w, t) ==
    LET buckets == getRange(w, t - w.bucketSizeMs * w.bucketCount, t)
    IN  IF buckets = <<>> THEN 0
        ELSE SumDelta([k \in DOMAIN buckets |->
                          [value |-> [buyVolume |->
                                          buckets[k].value.totalVolume,
                                      sellVolume |-> 0]]])

\* calculateCVD(window) at time t
calculateCVD(w, t) ==
    SumDelta(getRange(w, t - w.bucketSizeMs * w.bucketCount, t))

\* calculateDerivedMetrics(context): the fields derived from the price
\* windows and the volume deltas, and the time of the computation.  The
\* clock reads t up to the first evaluation of the velocity in
\* calculatePriceAcceleration() and u from the second one on.
calculateDerivedMetrics(context, t, u) ==
    [id |-> context.market.id,
     priceChange1m |-> calculatePriceChange(context.priceWindow1m, t).absolute,
     priceChangePercent1m |->
         calculatePriceChange(context.priceWindow1m, t).percent,
     priceChange5m |-> calculatePriceChange(context.priceWindow5m, t).absolute,
     priceVelocity |-> calculatePriceVelocity(context.priceWindow1m, t),
     priceAcceleration |->
         calculatePriceAcceleration(context.priceWindow1m, t, u),
     cvd1m |-> calculateCVD(context.volumeWindow1m, u),
     cvd5m |-> calculateCVD(context.volumeWindow5m, u),
     cvd15m |-> calculateCVD(context.volumeWindow15m, u),
     cvd1h |-> calculateCVD(context.volumeWindow1h, u),
     computedAt |-> u]

\* Faulty variant: one try around the loop, so that a throw ends the tick.
computeAll_OneTry(m, throws, t, u) ==
    LET failed == throws \cap DOMAIN m.contexts
    IN [m EXCEPT
          !.metrics = IF failed # {} THEN @
                      ELSE [id \in DOMAIN @ \cup DOMAIN m.contexts |->
                              IF id \in DOMAIN m.contexts
                              THEN calculateDerivedMetrics(m.contexts[id], t, u)
                              ELSE @[id]],
          !.tickedAt = <<t>>, !.threw = failed, !.raised = FALSE,
          !.prev = [id \in failed \cap DOMAIN m.metrics |-> m.metrics[id]]]

\* computeAll() with the clock readings t and u of each derivation (u = t
\* in every run of more than one instrument); `throws` are the instruments
\* whose derivation throws.  Each iteration has its own try/catch.
computeAll(m, throws, t, u) ==
    LET failed == throws \cap DOMAIN m.contexts
        done == DOMAIN m.contexts \ failed
    IN [m EXCEPT
          !.metrics = [id \in DOMAIN @ \cup done |->
                          IF id \in done
                          THEN calculateDerivedMetrics(m.contexts[id], t, u)
                          ELSE @[id]],
          !.tickedAt = <<t>>, !.threw = failed, !.raised = FALSE,
          !.prev = [id \in failed \cap DOMAIN m.metrics |-> m.metrics[id]]]

\* this.computeInterval, if it refers to a timer
MmHeld(m) == {i \in BagToSet(m.intervals) : i.held}

Unhold(i) == [i EXCEPT !.held = FALSE]

\* start(): computeAll(), then this.computeInterval = setInterval(...); the
\* timer the field referred to is not cleared.
MmStartF(m, throws, t, u) ==
    [computeAll(m, throws, t, u) EXCEPT
        !.intervals = BagAdd(BagOfAll(Unhold, @), [held |-> TRUE]),
        !.stopped = FALSE]

\* stop(): clearInterval(this.computeInterval)
MmStopF(m) ==
    [m EXCEPT !.intervals = @ (-) SetToBag(MmHeld(m)),
              !.tickedAt = <<>>, !.threw = {}, !.prev = <<>>,
              !.stopped = TRUE]

\* =========================================================================
\* MarketStore, and the Bybit connector's ticker handler that feeds it
\* =========================================================================
\* set(market) at time t.  The snapshot object is updated in place, so the
\* listener called after set() sees the same age and freshness.
Aged(market, t) ==
    [market EXCEPT !.dataAge = t - market.updatedAt,
                   !.isFresh = t - market.updatedAt < freshnessMs]

\* Faulty variant: an id already stored keeps its snapshot.
MarketStoreSet_KeepFirst(markets, market, t) ==
    IF market.id \in DOMAIN markets THEN markets
    ELSE SetAt(markets, market.id, Aged(market, t))

MarketStoreSet(markets, market, t) ==
    SetAt(markets, market.id, Aged(market, t))

\* get(id)
MarketStoreGet(markets, id) ==
    IF id \in DOMAIN markets THEN markets[id] ELSE None

getStats(markets) ==
    [totalMarkets |-> Cardinality(DOMAIN markets),
     staleMarkets |->
         Cardinality({id \in DOMAIN markets : ~markets[id].isFresh})]

normalizeBybitSymbol(exchangeSymbol) ==
    CASE exchangeSymbol = "BTCUSDT" -> "BTC-USDT-PERP"
      [] exchangeSymbol = "ETHUSDT" -> "ETH-USDT-PERP"

\* typeof x === "string"
IsString(x) == x # Undefined

\* data && typeof data === "object" && both required fields are strings
validateBybitTicker(data) ==
    /\ data # None
    /\ IsString(data.symbol)
    /\ IsString(data.lastPrice)

\* x || null; null is written <<>>
OrNull(x) == IF x = <<>> \/ x = <<0>> THEN <<>> ELSE x

\* normalizeBybitTicker(exchangeSymbol, tickerData) at time t
normalizeBybitTicker(exchangeSymbol, tickerData, t) ==
    [id |-> "bybit:" \o normalizeBybitSymbol(exchangeSymbol),
     exchangeSymbol |-> exchangeSymbol,
     lastPrice |-> OrZero(ParseFloat(tickerData.lastPrice))[1],
     markPrice |-> OrNull(ParseFloat(tickerData.markPrice)),
     updatedAt |-> t, dataAge |-> 0, isFresh |-> TRUE]

\* Topics as split at ".", and the data of a ticker frame; None is data that
\* is no object.
TickerTopics ==
    {<<"tickers", "BTCUSDT">>, <<"tickers", "ETHUSDT">>,
     <<"orderbook", "BTCUSDT">>, <<"tickers">>}

TickerData ==
    {None} \cup
    [symbol : {"BTCUSDT", Undefined},
     lastPrice : FieldTexts \cup {Undefined},
     markPrice : {Undefined}]

\* handleTickerMessage(msg) at time t: the market event it emits, if any.
handleTickerMessage(msg, t) ==
    IF Len(msg.topic) < 2 \/ msg.topic[1] # "tickers" THEN None
    ELSE IF ~validateBybitTicker(msg.data) THEN None
    ELSE normalizeBybitTicker(msg.topic[2], msg.data, t)

\* messageCount : frames handled
\* markets      : the MarketStore's map
\* emitted      : the market event of the last frame, if it emitted one
\* latest       : per id, the snapshot last handed to the store
MsInit ==
    [messageCount |-> 0, markets |-> <<>>, emitted |-> None, latest |-> <<>>]

\* The listener of the connectors' "market" event: marketStore.set(market),
\* then metricsManager.updateMarket(market).
MmOnMarket(m, market, t) ==
    [updateMarket(m, Aged(market, t), t) EXCEPT
        !.delivered[market.id] =
            Append(@, [lastPrice |-> market.lastPrice, at |-> t]),
        !.tickedAt = <<>>, !.threw = {}, !.prev = <<>>]

MsOnMarket(s, market, t) ==
    [s EXCEPT !.markets = MarketStoreSet(@, market, t),
              !.emitted = market,
              !.latest = SetAt(@, market.id, market)]

\* A ticker frame arrives at the Bybit connector.
MsTicker(msg) ==
    /\ venue = "ticker"
    /\ ms.messageCount < MaxMessages
    /\ LET market == handleTickerMessage(msg, now)
           s == [ms EXCEPT !.messageCount = @ + 1, !.emitted = None]
       IN IF market = None
          THEN ms' = s /\ mm' = mm
          ELSE /\ ms' = MsOnMarket(s, market, now)
               /\ mm' = MmOnMarket(mm, market, now)
    /\ UNCHANGED <<venue, cn, sessions, fr, now, rw, api, lb>>

\* Time passes.
ClockStep == IF venue \in {"window", "ohlc"} THEN 1 ELSE 1000

Horizon ==
    CASE venue = "ticker" -> freshnessMs + ClockStep
      [] venue = "window" -> (RwBucketCount + 2) * RwBucketSizeMs
      [] venue = "ohlc" -> 2 * RwBucketSizeMs
      [] venue \in {"metrics", "timers"} -> MaxTicks * ClockStep
      [] OTHER -> 0

Tick ==
    /\ now < Horizon
    /\ now' = now + ClockStep
    /\ UNCHANGED <<venue, cn, sessions, fr, ms, rw, mm, api, lb>>

NextTicker ==
    \/ \E topic \in TickerTopics, data \in TickerData :
           MsTicker([topic |-> topic, data |-> data])
    \/ Tick

\* =========================================================================
\* Unified markets and Maps
\* =========================================================================
\* The instruments, in the order the MarketStore first saw them.
BoardIds ==
    <<"bybit:BTC-USDT-PERP", "binance:BTC-USDT-PERP", "bybit:ETH-USDT-PERP">>

ExchangeOf(id) == IF id = "binance:BTC-USDT-PERP" THEN "binance" ELSE "bybit"

SymbolOf(id) ==
    IF id = "bybit:ETH-USDT-PERP" THEN "ETH-USDT-PERP" ELSE "BTC-USDT-PERP"

\* A snapshot; its best bid and best ask are at the last price unless a
\* run quotes them.
UnifiedMarket(id, lastPrice, priceChangePercent24h) ==
    [id |-> id, exchange |-> ExchangeOf(id), symbol |-> SymbolOf(id),
     lastPrice |-> lastPrice,
     bestBid |-> lastPrice, bestAsk |-> lastPrice,
     priceChangePercent24h |-> priceChangePercent24h]

\* A Map with no key.
EmptyMap == [key \in {} |-> <<>>]

\* map.set(key, value)
MapSet(map, key, value) ==
    [k \in DOMAIN map \cup {key} |-> IF k = key THEN value ELSE map[k]]

\* =========================================================================
\* WebSocketAPI: the broadcast throttle and the liveness probe
\* =========================================================================
\* wss       : this.wss is set
\* intervals : the setInterval timers not cleared; `field` is the field that
\*             refers to the timer ("" if none does)
\* ran       : the callback the last step ran, "" if none
\* stopped   : stop() was called, and start() was not called since
\* clients   : the consumers, by connection
\* markets, leaderboards : the two Maps of the broadcast queue
\* sequenceNumber : the number of the last update message
\* out       : the messages the last step handed to ws.send(), in order,
\*             each with the consumers it went to
\* pending, flushed : the last value enqueued for each id since the last
\*             flush, and what was pending when the last step flushed
\* removed, pinged : the consumers the last step terminated, and pinged
ApiInit ==
    [wss |-> FALSE, intervals |-> EmptyBag, ran |-> "", stopped |-> FALSE,
     clients |-> EmptyMap, markets |-> <<>>, leaderboards |-> <<>>,
     sequenceNumber |-> 0, out |-> <<>>,
     pending |-> EmptyMap, flushed |-> EmptyMap,
     removed |-> {}, pinged |-> {}]

Unfield(fields, i) ==
    IF i.field \in fields THEN [i EXCEPT !.field = ""] ELSE i

\* start(server): nothing if the server is already started.
ApiStartF(a) ==
    IF a.wss THEN [a EXCEPT !.ran = "", !.stopped = FALSE]
    ELSE [a EXCEPT
            !.wss = TRUE,
            !.intervals =
                 BagOfAll(LAMBDA i :
                              Unfield({"broadcastInterval", "pingInterval"}, i),
                          @)
                 (+) SetToBag({[field |-> "broadcastInterval"],
                               [field |-> "pingInterval"]}),
            !.ran = "", !.stopped = FALSE]

\* stop(): clearInterval on both fields, every consumer is closed and
\* forgotten, then the server is closed.
ApiStopF(a) ==
    [a EXCEPT
        !.wss = FALSE,
        !.intervals = @ (-) SetToBag({i \in BagToSet(@) : i.field # ""}),
        !.clients = EmptyMap,
        !.ran = "", !.stopped = TRUE]

\* ------------------------------------------ consumers and the broadcast queue
\* A consumer, as handleConnection() registers it.  The other fields are
\* history: the channels it has unsubscribed from and not subscribed to
\* again, the liveness ticks that have passed over it (counted up to two),
\* and whether a pong has arrived since the last of them.
WSClient ==
    [subscriptions |-> {}, isAlive |-> TRUE, readyState |-> "OPEN",
     dropped |-> {}, probes |-> 0, acked |-> FALSE]

\* What a step starts from: nothing sent, nobody removed or pinged yet.
Fresh(a) ==
    [a EXCEPT !.ran = "", !.out = <<>>, !.flushed = EmptyMap,
              !.removed = {}, !.pinged = {}]

\* A Map in insertion order, as a sequence of entries: map.set(key, value)
\* replaces the value of a key in place and appends a new key.
QueueSet_KeepFirst(queue, key, value) ==
    IF \E i \in DOMAIN queue : queue[i].key = key THEN queue
    ELSE Append(queue, [key |-> key, value |-> value])

QueueSet(queue, key, value) ==
    IF \E i \in DOMAIN queue : queue[i].key = key
    THEN [i \in DOMAIN queue |->
              IF queue[i].key = key THEN [key |-> key, value |-> value]
              ELSE queue[i]]
    ELSE Append(queue, [key |-> key, value |-> value])

\* Array.from(map.values())
QueueValues(queue) ==
    IF queue = <<>> THEN <<>> ELSE [i \in DOMAIN queue |-> queue[i].value]

\* sendToClient(ws, message): a system message, which carries no sequence
\* number.
sendToClient(a, ws, event, data) ==
    IF a.clients[ws].readyState = "OPEN"
    THEN [a EXCEPT !.out = Append(@, [channel |-> "system", event |-> event,
                                      data |-> data, sequence |-> <<>>,
                                      to |-> {ws}])]
    ELSE a

\* handleConnection(ws, req)
handleConnection(a, ws) ==
    sendToClient([a EXCEPT !.clients = MapSet(@, ws, WSClient)],
                 ws, "subscribe", "Connected to WebSocket API")

\* handleClientMessage(ws, message)
handleClientMessage(a, ws, message) ==
    IF ws \notin DOMAIN a.clients THEN a
    ELSE CASE message.action = "subscribe" ->
                  LET b == [a EXCEPT !.clients[ws].subscriptions =
                                         @ \cup Elems(message.channels),
                                     !.clients[ws].dropped =
                                         @ \ Elems(message.channels)]
                  IN  sendToClient(b, ws, "subscribe",
                                   b.clients[ws].subscriptions)
           [] message.action = "unsubscribe" ->
                  LET b == [a EXCEPT !.clients[ws].subscriptions =
                                         @ \ Elems(message.channels),
                                     !.clients[ws].dropped =
                                         @ \cup Elems(message.channels)]
                  IN  sendToClient(b, ws, "unsubscribe",
                                   b.clients[ws].subscriptions)
           [] message.action = "ping" ->
                  sendToClient(a, ws, "pong", <<>>)
           [] OTHER -> a

\* The "close" and "error" listeners: this.clients.delete(ws)
onClose(a, ws) ==
    [a EXCEPT !.clients = [c \in DOMAIN @ \ {ws} |-> @[c]]]

\* Faulty variant: the pong is noticed but isAlive is left as it is.
onPong_Ignored(a, ws) ==
    IF ws \in DOMAIN a.clients
    THEN [a EXCEPT !.clients[ws].acked = TRUE]
    ELSE a

\* The "pong" listener.
onPong(a, ws) ==
    IF ws \in DOMAIN a.clients
    THEN [a EXCEPT !.clients[ws].isAlive = TRUE, !.clients[ws].acked = TRUE]
    ELSE a

\* Faulty variant: the number is not advanced.
getNextSequence_Same(a) == a.sequenceNumber

\* getNextSequence(): ++this.sequenceNumber
getNextSequence(a) == a.sequenceNumber + 1

\* The consumers a message of the channel goes to.
Subscribers(a, channel) ==
    {ws \in DOMAIN a.clients :
         /\ \/ channel \in a.clients[ws].subscriptions
            \/ "*" \in a.clients[ws].subscriptions
         /\ a.clients[ws].readyState = "OPEN"}

\* A message is handed to ws.send() for each of these consumers.
SendTo(a, to, message) ==
    [a EXCEPT !.out = Append(@, [message EXCEPT !.to = to])]

\* Faulty variant: every open consumer gets the message.
broadcastToSubscribers_All(a, channel, message) ==
    SendTo(a, {ws \in DOMAIN a.clients : a.clients[ws].readyState = "OPEN"},
           message)

\* broadcastToSubscribers(channel, message); ws.send() is taken not to throw
\* on an open socket.
broadcastToSubscribers(a, channel, message) ==
    SendTo(a, Subscribers(a, channel), message)

\* An update message gets the next sequence number and is broadcast.
Update(a, channel, data) ==
    LET sequence == getNextSequence(a)
    IN  broadcastToSubscribers(
            [a EXCEPT !.sequenceNumber = sequence], channel,
            [channel |-> channel, event |-> "update", data |-> data,
             sequence |-> <<sequence>>, to |-> {}])

\* The last value enqueued for an id since the last flush, and how many
\* were enqueued for it (counted up to two).
Enqueued(pending, market) ==
    MapSet(pending, market.id,
           [value |-> market,
            writes |-> IF market.id \in DOMAIN pending
                       THEN Min(2, pending[market.id].writes + 1)
                       ELSE 1])

\* Faulty variant: a pending value of the id is kept.
broadcastMarket_KeepFirst(a, market) ==
    [a EXCEPT !.markets = QueueSet_KeepFirst(@, market.id, market),
              !.pending = Enqueued(@, market)]

\* broadcastMarket(market)
broadcastMarket(a, market) ==
    [a EXCEPT !.markets = QueueSet(@, market.id, market),
              !.pending = Enqueued(@, market)]

\* entries.slice(0, 20)
BroadcastTop == 20

\* broadcastLeaderboard(name, entries)
broadcastLeaderboard(a, name, entries) ==
    [a EXCEPT !.leaderboards =
                  QueueSet(@, name,
                           SubSeq(entries, 1, Min(BroadcastTop, Len(entries))))]

\* broadcastSignal(type, data): not queued.
broadcastSignal(a, type) == Update(a, "signals", [type |-> type])

\* The loops of flushBroadcastQueue() over the markets and the leaderboards,
\* from position k on.
RECURSIVE SymbolUpdates(_, _, _)
SymbolUpdates(a, markets, k) ==
    IF k > Len(markets) THEN a
    ELSE SymbolUpdates(Update(a, "markets:" \o markets[k].symbol, markets[k]),
                       markets, k + 1)

RECURSIVE LeaderboardUpdates(_, _, _)
LeaderboardUpdates(a, queue, k) ==
    IF k > Len(queue) THEN a
    ELSE LeaderboardUpdates(
             Update(a, "leaderboard:" \o queue[k].key, queue[k].value),
             queue, k + 1)

\* flushBroadcastQueue(); `flushed` remembers what was pending.
flushBroadcastQueue(a) ==
    LET markets == QueueValues(a.markets)
        b == IF Len(a.markets) > 0
             THEN [SymbolUpdates(Update(a, "markets", markets), markets, 1)
                       EXCEPT !.markets = <<>>]
             ELSE a
        c == LeaderboardUpdates(b, b.leaderboards, 1)
    IN  [c EXCEPT !.leaderboards = <<>>,
                  !.flushed = a.pending, !.pending = EmptyMap]

\* pingClients(): a consumer that is not alive is terminated and deleted;
\* the others are marked not alive and pinged if their socket is open.
pingClients(a) ==
    LET dead == {ws \in DOMAIN a.clients : ~a.clients[ws].isAlive}
    IN  [a EXCEPT
            !.clients =
                 [ws \in DOMAIN @ \ dead |->
                      [@[ws] EXCEPT !.isAlive = FALSE,
                                    !.probes = Min(2, @ + 1),
                                    !.acked = FALSE]],
            !.removed = dead,
            !.pinged = {ws \in DOMAIN a.clients \ dead :
                            a.clients[ws].readyState = "OPEN"}]

\* The callback of a timer of start().
IntervalRun(a, i) ==
    LET b == [a EXCEPT !.ran = i.field]
    IN  CASE i.field = "broadcastInterval" -> flushBroadcastQueue(b)
          [] i.field = "pingInterval" -> pingClients(b)
          [] OTHER -> b

\* =========================================================================
\* The MetricsManager and the WebSocketAPI, driven
\* =========================================================================
\* Last prices of the snapshots delivered: three for one instrument, one for
\* the other.
Prices(id) ==
    IF id = "bybit:BTC-USDT-PERP" THEN {100, 101, 102} ELSE {100}

\* The snapshot a connector emits for id with last price p at time t.
Snapshot(id, p, t) ==
    [id |-> id,
     exchangeSymbol |-> IF id = "bybit:BTC-USDT-PERP" THEN "BTCUSDT"
                        ELSE "ETHUSDT",
     lastPrice |-> p, markPrice |-> <<>>,
     updatedAt |-> t, dataAge |-> 0, isFresh |-> TRUE]

\* A run delivers as many snapshots as the first instrument has prices.
MaxDeliveries == Cardinality(Prices("bybit:BTC-USDT-PERP"))

Deliveries(m) == Len(m.delivered["bybit:BTC-USDT-PERP"])
                     + Len(m.delivered["bybit:ETH-USDT-PERP"])

\* A connector emits a snapshot.
MmMarket(id, p) ==
    /\ venue = "metrics"
    /\ Deliveries(mm) < MaxDeliveries
    /\ ms' = MsOnMarket(ms, Snapshot(id, p, now), now)
    /\ mm' = MmOnMarket(mm, Snapshot(id, p, now), now)
    /\ UNCHANGED <<venue, cn, sessions, fr, now, rw, api, lb>>

MmStart(throws) ==
    /\ venue \in {"metrics", "timers"}
    /\ BagCardinality(mm.intervals) < MaxIntervals
    /\ mm' = MmStartF(mm, throws, now, now)
    /\ UNCHANGED <<venue, cn, sessions, fr, now, ms, rw, api, lb>>

MmStop ==
    /\ venue = "timers"
    /\ mm' = MmStopF(mm)
    /\ UNCHANGED <<venue, cn, sessions, fr, now, ms, rw, api, lb>>

\* A timer of the MetricsManager fires.
MmIntervalFire(i, throws) ==
    /\ venue \in {"metrics", "timers"}
    /\ mm' = computeAll(mm, throws, now, now)
    /\ UNCHANGED <<venue, cn, sessions, fr, now, ms, rw, api, lb>>

ApiStart ==
    /\ venue \in {"timers", "broadcast", "probe"}
    /\ api' = ApiStartF(Fresh(api))
    /\ UNCHANGED <<venue, cn, sessions, fr, now, ms, rw, mm, lb>>

ApiStop ==
    /\ venue = "timers"
    /\ api' = ApiStopF(Fresh(api))
    /\ UNCHANGED <<venue, cn, sessions, fr, now, ms, rw, mm, lb>>

\* A timer of the WebSocketAPI fires: flushBroadcastQueue() or pingClients().
ApiIntervalFire(i) ==
    /\ venue \in {"timers", "broadcast", "probe"}
    /\ venue = "broadcast" => api.sequenceNumber < MaxSequence
    /\ api' = IntervalRun(Fresh(api), i)
    /\ UNCHANGED <<venue, cn, sessions, fr, now, ms, rw, mm, lb>>

\* Snapshots are delivered and the MetricsManager, once started, ticks.
NextMetrics ==
    \/ \E id \in InstrumentIds : \E p \in Prices(id) : MmMarket(id, p)
    \/ \E throws \in SUBSET InstrumentIds : MmStart(throws)
    \/ \E i \in BagToSet(mm.intervals), throws \in SUBSET InstrumentIds :
           MmIntervalFire(i, throws)
    \/ Tick

\* The instants of a run of the derivation of one instrument: the clock
\* moves from one to any later one.
DvInstants == {59000, 60000}

\* Trades of the instrument, and one of an instrument that has no context.
DvTrades ==
    {[exchange |-> "bybit", symbol |-> "BTC-USDT-PERP",
      side |-> "buy", quoteQuantity |-> 2],
     [exchange |-> "bybit", symbol |-> "BTC-USDT-PERP",
      side |-> "sell", quoteQuantity |-> 1],
     [exchange |-> "binance", symbol |-> "BTC-USDT-PERP",
      side |-> "buy", quoteQuantity |-> 1]}

\* A connector emits a snapshot of the instrument.
DvMarket(p) ==
    /\ venue = "derive"
    /\ Deliveries(mm) < MaxDeliveries
    /\ mm' = MmOnMarket(mm, Snapshot("bybit:BTC-USDT-PERP", p, now), now)
    /\ UNCHANGED <<venue, cn, sessions, fr, now, ms, rw, api, lb>>

\* A trade is handed to updateTrade().
DvTrade(trade) ==
    /\ venue = "derive"
    /\ mm.trades < MaxTrades
    /\ mm' = [updateTrade(mm, trade, now) EXCEPT
                 !.trades = @ + 1,
                 !.tickedAt = <<>>, !.threw = {}, !.prev = <<>>]
    /\ UNCHANGED <<venue, cn, sessions, fr, now, ms, rw, api, lb>>

\* The timer fires: computeAll().  `drift` milliseconds pass between the
\* two evaluations of the velocity.
DvCompute(drift) ==
    /\ venue = "derive"
    /\ drift > 0 => now = 60000
    /\ mm' = computeAll(mm, {}, now, now + drift)
    /\ now' = now + drift
    /\ UNCHANGED <<venue, cn, sessions, fr, ms, rw, api, lb>>

DvTick(t) ==
    /\ venue = "derive"
    /\ t > now
    /\ now' = t
    /\ UNCHANGED <<venue, cn, sessions, fr, ms, rw, mm, api, lb>>

NextDerive ==
    \/ \E p \in {100, 101} : DvMarket(p)
    \/ \E trade \in DvTrades : DvTrade(trade)
    \/ \E drift \in {0, 1} : DvCompute(drift)
    \/ \E t \in DvInstants : DvTick(t)

\* start() and stop() of the MetricsManager and of the WebSocketAPI, in any
\* order, and their timers firing.
NextTimers ==
    \/ \E throws \in SUBSET InstrumentIds : MmStart(throws)
    \/ MmStop
    \/ \E i \in BagToSet(mm.intervals), throws \in SUBSET InstrumentIds :
           MmIntervalFire(i, throws)
    \/ ApiStart
    \/ ApiStop
    \/ \E i \in BagToSet(api.intervals) : ApiIntervalFire(i)
    \/ Tick

\* =========================================================================
\* One RollingWindow, driven through add()
\* =========================================================================
\* w     : the window, created at time 0
\* adds  : add() calls so far
\* first : the time of the first add(), <<>> before it
\* at, timestamp : the time of the last add() and the timestamp it was given
\* plain : every add() so far was given the time of its call
\* pre   : currentIndex and lastBucketTime before the last add()
\* run   : the prices added in the bucket interval of the last add(), in
\*         the order of the calls ("ohlc" only)
RwInit ==
    [w |-> createPriceWindow(RwBucketSizeMs, RwBucketCount, 0),
     adds |-> 0, first |-> <<>>, at |-> 0, timestamp |-> 0, plain |-> TRUE,
     pre |-> [currentIndex |-> 0, lastBucketTime |-> 0], run |-> <<>>]

RwValues ==
    {[open |-> 1, high |-> 1, low |-> <<1>>, close |-> 1, volume |-> 1]}

\* The timestamps handed to add(): Date.now() (the default), the time the
\* window was created, and one bucket width before and after now.
RwTimestamps ==
    {0, now, now + RwBucketSizeMs} \cup
    (IF now >= RwBucketSizeMs THEN {now - RwBucketSizeMs} ELSE {})

RwAdd(value, timestamp) ==
    /\ venue = "window"
    /\ rw.adds < MaxAdds
    /\ rw' = [w |-> add(rw.w, value, timestamp, now),
              adds |-> rw.adds + 1,
              first |-> IF rw.first = <<>> THEN <<now>> ELSE rw.first,
              at |-> now, timestamp |-> timestamp,
              plain |-> rw.plain /\ timestamp = now,
              pre |-> [currentIndex |-> rw.w.currentIndex,
                       lastBucketTime |-> rw.w.lastBucketTime],
              run |-> <<>>]
    /\ UNCHANGED <<venue, cn, sessions, fr, now, ms, mm, api, lb>>

NextWindow ==
    \/ \E value \in RwValues, timestamp \in RwTimestamps :
           RwAdd(value, timestamp)
    \/ Tick

\* The last prices of the snapshots added to the window.
OhlcPrices == 1 .. (MaxPrice + 1)

\* The bucket interval of a time: the window was created at time 0.
RwInterval(t) == t \div RwBucketSizeMs

\* updateMarket() adds the price bucket of a snapshot: add(priceBucket),
\* with the time of the call as timestamp.
OhAdd(lastPrice) ==
    /\ venue = "ohlc"
    /\ rw.adds < MaxAdds
    /\ rw' = [w |-> add(rw.w, PriceBucket(lastPrice), now, now),
              adds |-> rw.adds + 1,
              first |-> IF rw.first = <<>> THEN <<now>> ELSE rw.first,
              at |-> now, timestamp |-> now, plain |-> rw.plain,
              pre |-> [currentIndex |-> rw.w.currentIndex,
                       lastBucketTime |-> rw.w.lastBucketTime],
              run |-> IF rw.adds > 0 /\ RwInterval(rw.at) = RwInterval(now)
                      THEN Append(rw.run, lastPrice)
                      ELSE <<lastPrice>>]
    /\ UNCHANGED <<venue, cn, sessions, fr, now, ms, mm, api, lb>>

NextOhlc ==
    \/ \E lastPrice \in OhlcPrices : OhAdd(lastPrice)
    \/ Tick

\* =========================================================================
\* The leaderboards: EnhancedLeaderboardStore and LeaderboardStore
\* =========================================================================
\* Percentages are whole numbers and the volume surge is counted in tenths
\* (15 is 1.5), so a score priceChange * volumeSurge is in tenths too.  A
\* market carries the fields the modelled views read; an entry carries no
\* metadata.  Of the seventeen views of the EnhancedLeaderboardStore the
\* model has two built by createEntries and three built by
\* createEntriesWithMetrics; of the three of the LeaderboardStore it has
\* gainers_1h.

\* x || d, for a number x
OrElse(x, d) == IF x = 0 THEN d ELSE x

Abs(x) == IF x < 0 THEN 0 - x ELSE x

\* The two comparators the views hand to sort().
sortFn_Ascending(order, a, b) == a.value - b.value

sortFn(order, a, b) ==
    IF order = "descending" THEN b.value - a.value ELSE a.value - b.value

\* Array.prototype.sort(sortFn), which is stable: element i goes behind the
\* elements that compare before it and behind the equal ones that precede it.
SortedPosition(arr, order, i) ==
    Cardinality({j \in DOMAIN arr :
                     \/ sortFn(order, arr[j], arr[i]) < 0
                     \/ sortFn(order, arr[j], arr[i]) = 0 /\ j <= i})

Sort(arr, order) ==
    IF arr = <<>> THEN <<>>
    ELSE [k \in DOMAIN arr |->
              arr[CHOOSE i \in DOMAIN arr : SortedPosition(arr, order, i) = k]]

\* Faulty variant: the rank is the index.
assignRanks_Index(entries) ==
    IF entries = <<>> THEN <<>>
    ELSE [k \in DOMAIN entries |-> [entries[k] EXCEPT !.rank = k - 1]]

\* entries.forEach((entry, index) => { entry.rank = index + 1 }); position
\* k of a sequence is index k - 1.
assignRanks(entries) ==
    IF entries = <<>> THEN <<>>
    ELSE [k \in DOMAIN entries |-> [entries[k] EXCEPT !.rank = (k - 1) + 1]]

LeaderboardEntry(market, value) ==
    [id |-> market.id, exchange |-> market.exchange,
     symbol |-> market.symbol, value |-> value, rank |-> 0]

\* The callback getValue is a function of the markets it is applied to.
createEntries(markets, getValue, order) ==
    LET mapped == IF markets = <<>> THEN <<>>
                  ELSE [i \in DOMAIN markets |->
                            LeaderboardEntry(markets[i], getValue[markets[i]])]
    IN  assignRanks(Sort(mapped, order))

\* metrics.get(market.id) is undefined for a market with no record: the
\* market is mapped to null and filtered out.
createEntriesWithMetrics(markets, metrics, getValue, order) ==
    LET known == SelectSeq(markets, LAMBDA m : m.id \in DOMAIN metrics)
        mapped == IF known = <<>> THEN <<>>
                  ELSE [i \in DOMAIN known |->
                            LeaderboardEntry(known[i],
                                             getValue[metrics[known[i].id]])]
    IN  assignRanks(Sort(mapped, order))

updateGainers1h(markets) ==
    LET gainers == SelectSeq(markets,
                       LAMBDA m : OrElse(m.priceChangePercent24h, 0) > 0)
    IN  createEntries(
            gainers,
            [m \in Elems(gainers) |-> OrElse(m.priceChangePercent24h, 0)],
            "descending")

updateLosers1h(markets) ==
    LET losers == SelectSeq(markets,
                      LAMBDA m : OrElse(m.priceChangePercent24h, 0) < 0)
    IN  createEntries(
            losers,
            [m \in Elems(losers) |-> Abs(OrElse(m.priceChangePercent24h, 0))],
            "descending")

\* 1.0 and 1.5, in tenths
SurgeDefault == 10
SurgeThreshold == 15

\* The metrics records of a Map.
MetricsValues(metrics) == {metrics[id] : id \in DOMAIN metrics}

updateVolumeSurge(markets, metrics) ==
    createEntriesWithMetrics(
        markets, metrics,
        [m \in MetricsValues(metrics) |-> OrElse(m.volumeSurge15m, SurgeDefault)],
        "descending")

PumpingValue(m) ==
    LET priceChange == OrElse(m.priceChangePercent1h, 0)
        volumeSurge == OrElse(m.volumeSurge15m, SurgeDefault)
        cvd == OrElse(m.cvd1h, 0)
    IN  IF priceChange > 0 /\ volumeSurge > SurgeThreshold /\ cvd > 0
        THEN priceChange * volumeSurge
        ELSE 0

DumpingValue(m) ==
    LET priceChange == OrElse(m.priceChangePercent1h, 0)
        volumeSurge == OrElse(m.volumeSurge15m, SurgeDefault)
        cvd == OrElse(m.cvd1h, 0)
    IN  IF priceChange < 0 /\ volumeSurge > SurgeThreshold /\ cvd < 0
        THEN Abs(priceChange) * volumeSurge
        ELSE 0

updatePumping(markets, metrics) ==
    createEntriesWithMetrics(
        markets, metrics,
        [m \in MetricsValues(metrics) |-> PumpingValue(m)], "descending")

updateDumping(markets, metrics) ==
    createEntriesWithMetrics(
        markets, metrics,
        [m \in MetricsValues(metrics) |-> DumpingValue(m)], "descending")

\* The views update() sets, in the order it sets them.
EnhancedViews(markets, metrics) ==
    [gainers_1h |-> updateGainers1h(markets),
     losers_1h |-> updateLosers1h(markets),
     volume_surge |-> updateVolumeSurge(markets, metrics),
     pumping |-> updatePumping(markets, metrics),
     dumping |-> updateDumping(markets, metrics)]

\* Faulty variant: a view keeps the entries it had.
update_KeepEntries(leaderboards, markets, metrics) ==
    LET set == EnhancedViews(markets, metrics)
    IN  [name \in DOMAIN leaderboards \cup DOMAIN set |->
             IF name \notin DOMAIN set THEN leaderboards[name]
             ELSE IF name \in DOMAIN leaderboards
                  THEN leaderboards[name] \o set[name]
                  ELSE set[name]]

\* EnhancedLeaderboardStore.update(markets, metrics): every view is set anew.
update(leaderboards, markets, metrics) ==
    LET set == EnhancedViews(markets, metrics)
    IN  [name \in DOMAIN leaderboards \cup DOMAIN set |->
             IF name \in DOMAIN set THEN set[name] ELSE leaderboards[name]]

\* ToIntegerOrInfinity(x) of a number written <<n>>; NaN, written <<>>, is 0.
ToIntegerOrInfinity(x) == IF x = <<>> THEN 0 ELSE x[1]

\* Array.prototype.slice(start, end): a negative index counts from the end
\* of the array, and both are clamped to 0..length.
slice(arr, start, end) ==
    LET len == Len(arr)
        relativeStart == ToIntegerOrInfinity(start)
        relativeEnd == ToIntegerOrInfinity(end)
        k == IF relativeStart < 0 THEN Max(len + relativeStart, 0)
             ELSE Min(relativeStart, len)
        final == IF relativeEnd < 0 THEN Max(len + relativeEnd, 0)
                 ELSE Min(relativeEnd, len)
    IN  SubSeq(arr, k + 1, final)

\* get(name, limit): (this.leaderboards.get(name) || []).slice(0, limit)
get(leaderboards, name, limit) ==
    slice(IF name \in DOMAIN leaderboards THEN leaderboards[name] ELSE <<>>,
          <<0>>, limit)

\* getLeaderboard(name, limit), without the time of the call
getLeaderboard(leaderboards, name, limit) ==
    [name |-> name,
     entries |-> get(leaderboards, name, limit),
     totalCount |-> IF name \in DOMAIN leaderboards
                    THEN Len(leaderboards[name]) ELSE 0]

\* LeaderboardStore.updateGainers1h(markets): every market whose 24h change
\* is a number; the comparator's `|| 0` leaves a number as it is.
LeaderboardStoreGainers1h(markets) ==
    LET numbered == SelectSeq(markets,
                        LAMBDA m : m.priceChangePercent24h \in Int)
    IN  createEntries(numbered,
                      [m \in Elems(numbered) |-> m.priceChangePercent24h],
                      "descending")

\* LeaderboardStore.update(markets)
LeaderboardStoreUpdate(leaderboards, markets) ==
    MapSet(leaderboards, "gainers_1h", LeaderboardStoreGainers1h(markets))

\* =========================================================================
\* The cross-venue aggregate and the aggregated store
\* =========================================================================
\* An AggregatedMarket carries the symbol, the venues and the spread of the
\* last prices.
\* Faulty variant: the two venues change places.
calculateArbitrage_Swapped(bestBid, bestBidExchange, bestAsk, bestAskExchange) ==
    IF bestBid > bestAsk /\ bestBidExchange # bestAskExchange
    THEN [exists |-> TRUE,
          buyExchange |-> bestBidExchange, sellExchange |-> bestAskExchange,
          profitPercent |-> ((bestBid - bestAsk) * 10000) \div bestAsk,
          buyPrice |-> bestAsk, sellPrice |-> bestBid]
    ELSE [exists |-> FALSE,
          buyExchange |-> bestBidExchange, sellExchange |-> bestAskExchange,
          profitPercent |-> 0, buyPrice |-> bestAsk, sellPrice |-> bestBid]

\* calculateArbitrage(); profitPercent is in hundredths of a percent, rounded
\* down.
calculateArbitrage(bestBid, bestBidExchange, bestAsk, bestAskExchange) ==
    IF bestBid > bestAsk /\ bestBidExchange # bestAskExchange
    THEN [exists |-> TRUE,
          buyExchange |-> bestAskExchange, sellExchange |-> bestBidExchange,
          profitPercent |-> ((bestBid - bestAsk) * 10000) \div bestAsk,
          buyPrice |-> bestAsk, sellPrice |-> bestBid]
    ELSE [exists |-> FALSE,
          buyExchange |-> bestBidExchange, sellExchange |-> bestAskExchange,
          profitPercent |-> 0, buyPrice |-> bestAsk, sellPrice |-> bestBid]

\* The loop over the markets of a symbol from market k on: a bid above the
\* best bid so far, an ask below the best ask so far, replaces it.  The
\* best ask starts at Infinity, written <<>>, a number n is written <<n>>.
RECURSIVE BestQuotes(_, _, _)
BestQuotes(markets, k, best) ==
    IF k > Len(markets) THEN best
    ELSE LET market == markets[k]
             bid == IF market.bestBid > best.bestBid
                    THEN [best EXCEPT !.bestBid = market.bestBid,
                                      !.bestBidExchange = market.exchange]
                    ELSE best
             ask == IF bid.bestAsk = Infinity \/ market.bestAsk < bid.bestAsk[1]
                    THEN [bid EXCEPT !.bestAsk = <<market.bestAsk>>,
                                     !.bestAskExchange = market.exchange]
                    ELSE bid
         IN  BestQuotes(markets, k + 1, ask)

\* aggregateSymbolMarkets(symbol, markets), for a symbol of at least one
\* market: the venues, the best quotes, the spread of the last prices and
\* the arbitrage.
aggregateSymbolMarkets(symbol, markets) ==
    LET prices == {markets[i].lastPrice : i \in DOMAIN markets}
        best == BestQuotes(markets, 1,
                           [bestBid |-> 0,
                            bestBidExchange |-> markets[1].exchange,
                            bestAsk |-> Infinity,
                            bestAskExchange |-> markets[1].exchange])
    IN  [symbol |-> symbol,
         exchanges |-> [i \in DOMAIN markets |-> markets[i].exchange],
         bestBid |-> best.bestBid,
         bestBidExchange |-> best.bestBidExchange,
         bestAsk |-> best.bestAsk[1],
         bestAskExchange |-> best.bestAskExchange,
         priceSpread |-> (CHOOSE p \in prices : \A q \in prices : q <= p)
                         - (CHOOSE p \in prices : \A q \in prices : p <= q),
         arbitrageOpportunity |->
             calculateArbitrage(best.bestBid, best.bestBidExchange,
                                best.bestAsk[1], best.bestAskExchange)]

\* Faulty variant: a symbol of one market is aggregated too.
aggregateMarketsBySymbol_Single(markets) ==
    LET bySymbol(symbol) == SelectSeq(markets, LAMBDA m : m.symbol = symbol)
        symbols == {markets[i].symbol : i \in DOMAIN markets}
    IN  [symbol \in symbols |->
             aggregateSymbolMarkets(symbol, bySymbol(symbol))]

\* The markets are grouped by symbol; a symbol of fewer than two markets is
\* left out.
aggregateMarketsBySymbol(markets) ==
    LET bySymbol(symbol) == SelectSeq(markets, LAMBDA m : m.symbol = symbol)
        symbols == {markets[i].symbol : i \in DOMAIN markets}
    IN  [symbol \in {s \in symbols : Len(bySymbol(s)) >= 2} |->
             aggregateSymbolMarkets(symbol, bySymbol(symbol))]

\* Faulty variant: the store is cleared and the refill is left to a later
\* task.
updateAggregated_ClearOnly(aggregatedStore, markets) == EmptyMap

\* updateAggregated() of index.ts: the store is cleared and refilled in one
\* synchronous run.
updateAggregated(aggregatedStore, markets) ==
    LET aggregated == aggregateMarketsBySymbol(markets)
        cleared == EmptyMap
    IN  [symbol \in DOMAIN cleared \cup DOMAIN aggregated |->
             aggregated[symbol]]

\* =========================================================================
\* The leaderboard ticks and the HTTP readers, driven
\* =========================================================================
\* leaderboards, enhanced : the views of the LeaderboardStore and of the
\*                          EnhancedLeaderboardStore
\* aggregatedStore        : the Map the aggregation tick rebuilds
\* store                  : the markets of the MarketStore the ticks read
\* inputs  : the markets and metrics of the last leaderboard tick
\* left    : at the last leaderboard tick an instrument listed in a view was
\*           no longer among the view's entries
\* updated : a leaderboard tick has run
\* aggregatedOf : the markets of the last aggregation tick
\* read    : the response the last step sent, NoRead if it sent none
NoRead == [route |-> ""]

LbInit ==
    [leaderboards |-> EmptyMap, enhanced |-> EmptyMap,
     aggregatedStore |-> EmptyMap, store |-> EmptyMap,
     inputs |-> [markets |-> <<>>, metrics |-> EmptyMap],
     left |-> FALSE, updated |-> FALSE, aggregatedOf |-> <<>>, read |-> NoRead]

\* The largest 24h change, in percent.
MaxPct == 2

Pcts == {-1} \cup (1 .. MaxPct)

Sign(x) == IF x < 0 THEN -1 ELSE IF x > 0 THEN 1 ELSE 0

\* The metrics record of an instrument whose 1h change is pct: no surge
\* measured ("calm"), a surge of exactly 1.5 ("edge"), a surge of 2.0 with
\* the cumulative delta on the side of the change ("surging") or against it
\* ("contrary").
DerivedMetrics(kind, pct) ==
    [priceChangePercent1h |-> pct,
     volumeSurge15m |-> CASE kind = "calm" -> 0
                          [] kind = "edge" -> SurgeThreshold
                          [] OTHER -> 20,
     cvd1h |-> IF kind = "contrary" THEN 0 - Sign(pct) ELSE Sign(pct)]

\* What update() may be handed for an instrument: nothing, or a market with
\* a metrics record of one of these kinds ("none": no record).
KindsOf(id) ==
    CASE id = BoardIds[1] -> {"none", "calm", "edge", "surging", "contrary"}
      [] id = BoardIds[2] -> {"none", "surging"}
      [] OTHER -> {"surging"}

\* The 24h changes of an instrument; the last instrument has one.
PctsOf(id) == IF id = BoardIds[3] THEN {1} ELSE Pcts

Absent == [present |-> FALSE, pct |-> 0, kind |-> "none"]

BoardOptions(id) ==
    {Absent} \cup
    {[present |-> TRUE, pct |-> pct, kind |-> kind] :
         pct \in PctsOf(id), kind \in KindsOf(id)}

\* marketStore.getAll() and metricsManager.getAll() for a choice of options.
MarketsOf(options) ==
    LET present == SelectSeq([i \in DOMAIN BoardIds |-> i],
                             LAMBDA i : options[i].present)
    IN  IF present = <<>> THEN <<>>
        ELSE [k \in DOMAIN present |->
                  UnifiedMarket(BoardIds[present[k]],
                                100 + options[present[k]].pct,
                                options[present[k]].pct)]

MetricsOf(options) ==
    [id \in {BoardIds[i] : i \in {j \in DOMAIN BoardIds :
                                       /\ options[j].present
                                       /\ options[j].kind # "none"}} |->
         LET i == CHOOSE j \in DOMAIN BoardIds : BoardIds[j] = id
         IN  DerivedMetrics(options[i].kind, options[i].pct)]

\* The ids of the entries of a view.
Listed(entries) == {entries[k].id : k \in DOMAIN entries}

SomeoneLeft(before, after) ==
    \E name \in DOMAIN before \cap DOMAIN after :
        Listed(before[name]) \ Listed(after[name]) # {}

\* updateLeaderboards() of index.ts, for what the two getAll() return.
updateLeaderboards(l, markets, metrics) ==
    LET enhanced == update(l.enhanced, markets, metrics)
    IN  [l EXCEPT
            !.leaderboards = LeaderboardStoreUpdate(@, markets),
            !.enhanced = enhanced,
            !.inputs = [markets |-> markets, metrics |-> metrics],
            !.left = SomeoneLeft(l.enhanced, enhanced),
            !.updated = TRUE,
            !.read = NoRead]

\* A leaderboard tick over any markets and metrics.
LbUpdate(options) ==
    /\ venue = "boards"
    /\ lb' = updateLeaderboards(lb, MarketsOf(options), MetricsOf(options))
    /\ UNCHANGED <<venue, cn, sessions, fr, now, ms, rw, mm, api>>

NextBoards ==
    \E o1 \in BoardOptions(BoardIds[1]), o2 \in BoardOptions(BoardIds[2]),
       o3 \in BoardOptions(BoardIds[3]) :
        LbUpdate(<<o1, o2, o3>>)

\* marketStore.getAll(): the markets, in the order of BoardIds.
getAll(store) ==
    LET present == SelectSeq(BoardIds, LAMBDA id : id \in DOMAIN store)
    IN  IF present = <<>> THEN <<>>
        ELSE [k \in DOMAIN present |-> store[present[k]]]

\* The instruments whose snapshots the readers' run delivers, and their 24h
\* changes.
ReaderIds == {BoardIds[1], BoardIds[2]}

ReaderPcts == {-1, MaxPct}

\* A connector emits a snapshot: marketStore.set(market).  The metrics the
\* MetricsManager derives from it are an input of the leaderboard tick.
RdMarket(id, pct) ==
    /\ venue = "readers"
    /\ lb' = [lb EXCEPT
                 !.store = MapSet(@, id, UnifiedMarket(id, 100 + pct, pct)),
                 !.read = NoRead]
    /\ UNCHANGED <<venue, cn, sessions, fr, now, ms, rw, mm, api>>

\* The leaderboard timer fires; the MetricsManager holds a record for the
\* instruments in `known`.
RdLeaderboardTick(known) ==
    /\ venue = "readers"
    /\ lb' = updateLeaderboards(
                 lb, getAll(lb.store),
                 [id \in known |->
                      DerivedMetrics("surging",
                                     lb.store[id].priceChangePercent24h)])
    /\ UNCHANGED <<venue, cn, sessions, fr, now, ms, rw, mm, api>>

\* The aggregation timer fires.
RdAggregatedTick ==
    /\ venue = "readers"
    /\ lb' = [lb EXCEPT
                 !.aggregatedStore = updateAggregated(@, getAll(lb.store)),
                 !.aggregatedOf = getAll(lb.store),
                 !.read = NoRead]
    /\ UNCHANGED <<venue, cn, sessions, fr, now, ms, rw, mm, api>>

\* handleSignals: GET /signals
handleSignals(enhanced) ==
    LET pumping == get(enhanced, "pumping", <<10>>)
        dumping == get(enhanced, "dumping", <<10>>)
        volumeSurge == get(enhanced, "volume_surge", <<10>>)
    IN  [route |-> "signals",
         pumping |-> Len(pumping), dumping |-> Len(dumping),
         volumeSurge |-> Len(volumeSurge),
         topPumping |-> SubSeq(pumping, 1, Min(5, Len(pumping))),
         topDumping |-> SubSeq(dumping, 1, Min(5, Len(dumping)))]

\* A text is the sequence of its characters; searchParams.get() of a
\* parameter the URL does not carry is null.
Null == <<"null">>

DigitChars == <<"0", "1", "2", "3", "4", "5", "6", "7", "8", "9">>

IsDigit(c) == \E d \in DOMAIN DigitChars : DigitChars[d] = c

DigitValue(c) == (CHOOSE d \in DOMAIN DigitChars : DigitChars[d] = c) - 1

\* The value of the longest prefix of digits of a text, after `acc`.
RECURSIVE DigitsValue(_, _)
DigitsValue(text, acc) ==
    IF text = <<>> \/ ~IsDigit(Head(text)) THEN acc
    ELSE DigitsValue(Tail(text), 10 * acc + DigitValue(Head(text)))

\* parseInt(text, 10) of a text without leading white space: an optional
\* sign, then the longest prefix of digits; NaN, written <<>>, if there is
\* no digit.
parseInt(text) ==
    LET negative == text # <<>> /\ Head(text) = "-"
        signed == text # <<>> /\ Head(text) \in {"-", "+"}
        digits == IF signed THEN Tail(text) ELSE text
    IN  IF digits = <<>> \/ ~IsDigit(Head(digits)) THEN <<>>
        ELSE IF negative THEN <<0 - DigitsValue(digits, 0)>>
        ELSE <<DigitsValue(digits, 0)>>

\* text || "100": null and the empty text are falsy.
OrHundred(text) ==
    IF text = Null \/ text = <<>> THEN <<"1", "0", "0">> ELSE text

\* handleLeaderboard: GET /leaderboards/{name}?limit={text}, answered by
\* getLeaderboard(); `limit` is recorded with the answer.
handleLeaderboard(enhanced, name, text) ==
    LET limit == parseInt(OrHundred(text))
        leaderboard == getLeaderboard(enhanced, name, limit)
    IN  [route |-> "leaderboard", name |-> leaderboard.name,
         limit |-> limit,
         entries |-> leaderboard.entries,
         totalCount |-> leaderboard.totalCount]

\* handleAggregated: GET /aggregated
handleAggregated(aggregatedStore) ==
    [route |-> "aggregated",
     body |-> {aggregatedStore[symbol] : symbol \in DOMAIN aggregatedStore}]

RdSignals ==
    /\ venue = "readers"
    /\ lb' = [lb EXCEPT !.read = handleSignals(lb.enhanced)]
    /\ UNCHANGED <<venue, cn, sessions, fr, now, ms, rw, mm, api>>

\* The texts of the limit parameter of a request.
LimitTexts ==
    {Null, <<>>, <<"0">>, <<"1">>, <<"2">>, <<"1", "x">>, <<"a", "b", "c">>,
     <<"-", "1">>}

RdLeaderboard(name, text) ==
    /\ venue = "readers"
    /\ lb' = [lb EXCEPT !.read = handleLeaderboard(lb.enhanced, name, text)]
    /\ UNCHANGED <<venue, cn, sessions, fr, now, ms, rw, mm, api>>

RdAggregated ==
    /\ venue = "readers"
    /\ lb' = [lb EXCEPT !.read = handleAggregated(lb.aggregatedStore)]
    /\ UNCHANGED <<venue, cn, sessions, fr, now, ms, rw, mm, api>>

\* Snapshots, the two ticks and the requests, in any order.
NextReaders ==
    \/ \E id \in ReaderIds, pct \in ReaderPcts : RdMarket(id, pct)
    \/ \E known \in SUBSET DOMAIN lb.store : RdLeaderboardTick(known)
    \/ RdAggregatedTick
    \/ RdSignals
    \/ \E text \in LimitTexts : RdLeaderboard("gainers_1h", text)
    \/ RdAggregated

\* =========================================================================
\* The aggregation tick over the MarketStore, driven
\* =========================================================================
\* The best bids and best asks the snapshots quote.
Quotes == {99, 100, 101}

\* The third instrument is quoted at one price.
QuotesOf(id) == IF id = BoardIds[3] THEN {100} ELSE Quotes

\* map.delete(key)
MapDelete(map, key) == [k \in DOMAIN map \ {key} |-> map[k]]

\* Array.from(map.values()) follows the order in which the keys were first
\* set, which is any order of the keys.
Orderings(map) ==
    {[k \in DOMAIN order |-> map[order[k]]] :
         order \in {o \in [1 .. Cardinality(DOMAIN map) -> DOMAIN map] :
                        \A i, j \in DOMAIN o : i # j => o[i] # o[j]}}

\* A connector emits a snapshot: marketStore.set(market).
AgMarket(id, bestBid, bestAsk) ==
    /\ venue = "aggregate"
    /\ lb' = [lb EXCEPT
                 !.store = MapSet(@, id,
                                  [UnifiedMarket(id, 100, 0) EXCEPT
                                       !.bestBid = bestBid,
                                       !.bestAsk = bestAsk]),
                 !.read = NoRead]
    /\ UNCHANGED <<venue, cn, sessions, fr, now, ms, rw, mm, api>>

\* marketStore.delete(id)
AgDelete(id) ==
    /\ venue = "aggregate"
    /\ id \in DOMAIN lb.store
    /\ lb' = [lb EXCEPT !.store = MapDelete(@, id), !.read = NoRead]
    /\ UNCHANGED <<venue, cn, sessions, fr, now, ms, rw, mm, api>>

\* The aggregation timer fires: updateAggregated() over getAll(), which
\* returns `markets`.  `left` records that a symbol the store held is no
\* longer in it.
AgTick(markets) ==
    /\ venue = "aggregate"
    /\ lb' = [lb EXCEPT
                 !.aggregatedStore = updateAggregated(@, markets),
                 !.aggregatedOf = markets,
                 !.left = \E symbol \in DOMAIN lb.aggregatedStore :
                              symbol \notin DOMAIN updateAggregated(
                                                      lb.aggregatedStore,
                                                      markets),
                 !.read = [route |-> "aggregation"]]
    /\ UNCHANGED <<venue, cn, sessions, fr, now, ms, rw, mm, api>>

NextAggregate ==
    \/ \E id \in Elems(BoardIds) :
           \E bestBid \in QuotesOf(id), bestAsk \in QuotesOf(id) :
               AgMarket(id, bestBid, bestAsk)
    \/ \E id \in Elems(BoardIds) : AgDelete(id)
    \/ \E markets \in Orderings(lb.store) : AgTick(markets)

\* =========================================================================
\* The WebSocketAPI's consumers and producers, driven
\* =========================================================================
ClientIds == 1 .. (IF venue = "broadcast" THEN MaxSubscribers ELSE MaxClients)

\* The channels a consumer names, and the messages it sends.
ApiChannels == {"markets", "*"}

ClientMessages ==
    {[action |-> action, channels |-> <<channel>>] :
         action \in {"subscribe", "unsubscribe"}, channel \in ApiChannels}
    \cup {[action |-> "ping", channels |-> <<>>]}

\* The markets a producer enqueues: one symbol on two venues, two last
\* prices on the first.
QueuePrices(id) == IF id = BoardIds[1] THEN {1, 2} ELSE {1}

\* A consumer connects; it is given the lowest number that is free.
ApiConnection(ws) ==
    /\ venue \in {"broadcast", "probe"}
    /\ api.wss
    /\ ws \notin DOMAIN api.clients
    /\ \A other \in ClientIds \ DOMAIN api.clients : ws <= other
    /\ api' = handleConnection(Fresh(api), ws)
    /\ UNCHANGED <<venue, cn, sessions, fr, now, ms, rw, mm, lb>>

\* A consumer's message arrives; a run of the probe sees only the
\* subscription to every channel.
ApiClientMessage(ws, message) ==
    /\ venue \in {"broadcast", "probe"}
    /\ venue = "probe" =>
           message = [action |-> "subscribe", channels |-> <<"*">>]
    /\ ws \in DOMAIN api.clients
    /\ api.clients[ws].readyState = "OPEN"
    /\ api' = handleClientMessage(Fresh(api), ws, message)
    /\ UNCHANGED <<venue, cn, sessions, fr, now, ms, rw, mm, lb>>

\* The consumer's close frame arrives: the socket is closing until its
\* "close" event.
ApiClientClosing(ws) ==
    /\ venue = "probe"
    /\ ws \in DOMAIN api.clients
    /\ api.clients[ws].readyState = "OPEN"
    /\ api' = [Fresh(api) EXCEPT !.clients[ws].readyState = "CLOSING"]
    /\ UNCHANGED <<venue, cn, sessions, fr, now, ms, rw, mm, lb>>

\* The socket's "close" event.
ApiClientClose(ws) ==
    /\ venue \in {"broadcast", "probe"}
    /\ ws \in DOMAIN api.clients
    /\ api' = onClose(Fresh(api), ws)
    /\ UNCHANGED <<venue, cn, sessions, fr, now, ms, rw, mm, lb>>

\* The consumer's pong arrives.
ApiPong(ws) ==
    /\ venue = "probe"
    /\ ws \in DOMAIN api.clients
    /\ api.clients[ws].readyState = "OPEN"
    /\ api' = onPong(Fresh(api), ws)
    /\ UNCHANGED <<venue, cn, sessions, fr, now, ms, rw, mm, lb>>

ApiBroadcastMarket(id, lastPrice) ==
    /\ venue = "broadcast"
    /\ api' = broadcastMarket(Fresh(api), UnifiedMarket(id, lastPrice, 1))
    /\ UNCHANGED <<venue, cn, sessions, fr, now, ms, rw, mm, lb>>

ApiBroadcastLeaderboard(name, entries) ==
    /\ venue = "broadcast"
    /\ api' = broadcastLeaderboard(Fresh(api), name, entries)
    /\ UNCHANGED <<venue, cn, sessions, fr, now, ms, rw, mm, lb>>

ApiBroadcastSignal(type) ==
    /\ venue = "broadcast"
    /\ api.sequenceNumber < MaxSequence
    /\ api' = broadcastSignal(Fresh(api), type)
    /\ UNCHANGED <<venue, cn, sessions, fr, now, ms, rw, mm, lb>>

\* The server is started; consumers come and go and send messages,
\* producers enqueue markets and leaderboards and raise signals, and the
\* flush timer fires.
NextBroadcast ==
    \/ ApiStart
    \/ \E ws \in ClientIds : ApiConnection(ws)
    \/ \E ws \in ClientIds, message \in ClientMessages :
           ApiClientMessage(ws, message)
    \/ \E ws \in ClientIds : ApiClientClose(ws)
    \/ \E id \in {BoardIds[1], BoardIds[2]} : \E lastPrice \in QueuePrices(id) :
           ApiBroadcastMarket(id, lastPrice)
    \/ ApiBroadcastLeaderboard(
           "gainers_1h", <<[id |-> BoardIds[1], value |-> 1, rank |-> 1]>>)
    \/ ApiBroadcastSignal("pumping")
    \/ \E i \in BagToSet(api.intervals) :
           i.field = "broadcastInterval" /\ ApiIntervalFire(i)

\* The server is started; consumers come, subscribe, answer the probe or
\* not, and go, and the liveness timer fires.
NextProbe ==
    \/ ApiStart
    \/ \E ws \in ClientIds : ApiConnection(ws)
    \/ \E ws \in ClientIds, message \in ClientMessages :
           ApiClientMessage(ws, message)
    \/ \E ws \in ClientIds : ApiClientClosing(ws)
    \/ \E ws \in ClientIds : ApiClientClose(ws)
    \/ \E ws \in ClientIds : ApiPong(ws)
    \/ \E i \in BagToSet(api.intervals) :
           i.field = "pingInterval" /\ ApiIntervalFire(i)

\* =========================================================================
\* BybitConnector and BinanceConnector: the lifecycle
\* =========================================================================
\* A symbol handed to subscribeToTickers(), as split at "-".
SymbolTexts == {<<"BTCUSDT">>, <<"BTC", "USDT", "PERP">>, <<"ETH", "USDT", "PERP">>}

SymbolArrays == {<<x>> : x \in SymbolTexts}

\* How fetchBybitSymbols() / fetchBinanceSymbols() settled: it threw, or it
\* gave the list of the exchange's symbols.
SymbolFetches ==
    {[threw |-> TRUE, symbolList |-> <<>>],
     [threw |-> FALSE,
      symbolList |-> <<[exchangeSymbol |-> "BTCUSDT",
                        normalizedSymbol |-> "BTC-USDT-PERP"]>>]}

\* The text of a symbol split at "-".
RECURSIVE JoinDash(_)
JoinDash(parts) ==
    IF Len(parts) = 1 THEN parts[1]
    ELSE JoinDash(SubSeq(parts, 1, Len(parts) - 1)) \o "-" \o parts[Len(parts)]

ToLowerCase(text) ==
    CASE text = "BTCUSDT" -> "btcusdt"
      [] text = "ETHUSDT" -> "ethusdt"
      [] OTHER -> text

\* symbols           : the symbol map, exchange symbol -> normalized symbol
\* subscribed        : subscribedTickers (Bybit), subscribedSymbols (Binance)
\* oiPollingInterval : the open-interest setInterval timer exists (Binance)
\* call              : the method called in the last step, and whether it
\*                     threw; op = "" if the step was an event of the session
CnInit(exchangeId) ==
    [exchangeId |-> exchangeId, isInitialized |-> FALSE, isStarted |-> FALSE,
     symbols |-> EmptyMap, subscribed |-> <<>>, oiPollingInterval |-> FALSE,
     call |-> [op |-> "", threw |-> FALSE]]

\* The connector and its wsManager, as the operators below transform them.
CnPair(c, ws) == [cn |-> c, ws |-> ws]

\* throw new Error(...)
CnThrow(k) == [k EXCEPT !.cn.call.threw = TRUE]

\* The wsManager's methods, of the connector's exchange.
WsConnect(exchangeId, ws) ==
    IF exchangeId = "bybit" THEN ByConnectF(ws) ELSE BnConnectF(ws)

WsDisconnect(exchangeId, ws) ==
    IF exchangeId = "bybit" THEN ByDisconnectF(ws) ELSE BnDisconnectF(ws)

WsSubscribe(exchangeId, ws, names) ==
    IF exchangeId = "bybit" THEN BySubscribeF(ws, names) ELSE BnSubscribeF(ws, names)

WsUnsubscribeAll(exchangeId, ws) ==
    IF exchangeId = "bybit" THEN ByUnsubscribeAllF(ws) ELSE BnUnsubscribeAllF(ws)

\* initialize(), once the fetch of the symbol list has settled.
initialize(k, fetched) ==
    IF k.cn.isInitialized THEN k
    ELSE IF fetched.threw THEN [k EXCEPT !.cn.isInitialized = TRUE]
    ELSE LET symbolList == fetched.symbolList IN
         [k EXCEPT
            !.cn.symbols =
                [s \in {symbolList[i].exchangeSymbol : i \in DOMAIN symbolList} |->
                    (CHOOSE x \in Elems(symbolList) : x.exchangeSymbol = s).normalizedSymbol],
            !.cn.isInitialized = TRUE]

startOIPolling(c) == [c EXCEPT !.oiPollingInterval = TRUE]

stopOIPolling(c) == [c EXCEPT !.oiPollingInterval = FALSE]

start(k) ==
    IF ~k.cn.isInitialized THEN CnThrow(k)
    ELSE IF k.cn.isStarted THEN k
    ELSE LET k1 == [k EXCEPT !.ws = WsConnect(k.cn.exchangeId, @)]
             k2 == IF k.cn.exchangeId = "binance"
                   THEN [k1 EXCEPT !.cn = startOIPolling(stopOIPolling(@))]
                   ELSE k1
         IN [k2 EXCEPT !.cn.isStarted = TRUE]

unsubscribeAll(k) ==
    [k EXCEPT !.ws = WsUnsubscribeAll(k.cn.exchangeId, @), !.cn.subscribed = <<>>]

stop(k) ==
    LET k1 == unsubscribeAll(k)
        k2 == IF k.cn.exchangeId = "binance"
              THEN [k1 EXCEPT !.cn = stopOIPolling(@)]
              ELSE k1
        k3 == [k2 EXCEPT !.ws = WsDisconnect(k.cn.exchangeId, @)]
    IN [k3 EXCEPT !.cn.isStarted = FALSE]

denormalizeSymbol(symbols, parts) ==
    LET normalizedSymbol == JoinDash(parts)
        found == {s \in DOMAIN symbols : symbols[s] = normalizedSymbol}
    IN IF found # {} THEN CHOOSE s \in found : TRUE
       ELSE IF Len(parts) >= 2 THEN parts[1] \o parts[2]
       ELSE normalizedSymbol

\* The names handed to wsManager.subscribe(): the topic "tickers.<symbol>"
\* as split at "." (Bybit); the streams "<symbol>@ticker",
\* "<symbol>@markPrice@1s" and "<symbol>@bookTicker" as split at "@" (Binance).
TickerNames(exchangeId, exchangeSymbols) ==
    IF exchangeId = "bybit"
    THEN [i \in DOMAIN exchangeSymbols |-> <<"tickers", exchangeSymbols[i]>>]
    ELSE [j \in 1..(3 * Len(exchangeSymbols)) |->
            LET lowerSymbol == ToLowerCase(exchangeSymbols[(j - 1) \div 3 + 1])
            IN CASE (j - 1) % 3 = 0 -> <<lowerSymbol, "ticker">>
                 [] (j - 1) % 3 = 1 -> <<lowerSymbol, "markPrice", "1s">>
                 [] OTHER -> <<lowerSymbol, "bookTicker">>]

\* Faulty variant: subscribeToTickers() does not ask whether start() has run.
subscribeToTickers_Unchecked(k, symbols) ==
    LET exchangeSymbols ==
            [i \in DOMAIN symbols |-> denormalizeSymbol(k.cn.symbols, symbols[i])]
    IN [k EXCEPT
          !.ws = WsSubscribe(k.cn.exchangeId, @,
                             TickerNames(k.cn.exchangeId, exchangeSymbols)),
          !.cn.subscribed = AddAll(@, exchangeSymbols)]

subscribeToTickers(k, symbols) ==
    IF ~k.cn.isStarted THEN CnThrow(k)
    ELSE LET exchangeSymbols ==
                 [i \in DOMAIN symbols |->
                     IF JoinDash(symbols[i]) \in DOMAIN k.cn.symbols
                     THEN JoinDash(symbols[i])
                     ELSE denormalizeSymbol(k.cn.symbols, symbols[i])]
         IN [k EXCEPT
               !.ws = WsSubscribe(k.cn.exchangeId, @,
                                  TickerNames(k.cn.exchangeId, exchangeSymbols)),
               !.cn.subscribed = AddAll(@, exchangeSymbols)]

\* -------------------------------------------------------- connector actions
\* The connector's session, and the connector as a call of op finds them.
CnSession == IF cn.exchangeId = "bybit" THEN ByStart(by) ELSE bn

CnCalled(op) ==
    CnPair([cn EXCEPT !.call = [op |-> op, threw |-> FALSE]], CnSession)

\* The step stays within the bounds on sockets, timers and retries.
CnFits(ws) ==
    /\ LiveCount(ws.socks) <= MaxSockets
    /\ BagCardinality(ws.timers) <= MaxTimers
    /\ IF cn.exchangeId = "bybit"
       THEN ws.reconnectAttempts <= MaxSplitRetries
       ELSE \A i \in DOMAIN ws.connections :
                ws.connections[i].reconnectAttempts <= MaxSplitRetries

CnStep(k) ==
    /\ venue \in {"bybitConnector", "binanceConnector"}
    /\ CnFits(k.ws)
    /\ cn' = k.cn
    /\ IF cn.exchangeId = "bybit"
       THEN by' = k.ws /\ UNCHANGED bn
       ELSE bn' = k.ws /\ UNCHANGED by
    /\ UNCHANGED <<venue, bc, downstream>>

CnInitialize(fetched) == CnStep(initialize(CnCalled("initialize"), fetched))

CnStart == CnStep(start(CnCalled("start")))

CnStop == CnStep(stop(CnCalled("stop")))

CnSubscribeToTickers(symbols) ==
    CnStep(subscribeToTickers(CnCalled("subscribeToTickers"), symbols))

\* The events of the session's sockets and timers.
CnSockOpen(k) ==
    /\ k.rs = "CONNECTING"
    /\ CnStep([CnCalled("") EXCEPT
                 !.ws = IF cn.exchangeId = "bybit" THEN ByOnOpen(@, k)
                        ELSE BnOnOpen(@, k)])

CnSockClose(k) ==
    CnStep([CnCalled("") EXCEPT
              !.ws = IF cn.exchangeId = "bybit" THEN ByOnClose(@, k)
                     ELSE BnOnClose(@, k)])

CnTimerFire(t) ==
    CnStep([CnCalled("") EXCEPT
              !.ws = IF cn.exchangeId = "bybit" THEN ByOnTimer(@, t)
                     ELSE BnOnTimer(@, t)])

NextConnector ==
    \/ \E fetched \in SymbolFetches : CnInitialize(fetched)
    \/ CnStart
    \/ CnStop
    \/ \E symbols \in SymbolArrays : CnSubscribeToTickers(symbols)
    \/ \E k \in Live(CnSession.socks) : CnSockOpen(k)
    \/ \E k \in Live(CnSession.socks) : CnSockClose(k)
    \/ \E t \in BagToSet(CnSession.timers) : CnTimerFire(t)

\* =========================================================================
\* Specifications
\* =========================================================================
\* One run drives one session; the sessions share nothing.
InitSession(venues, hist) ==
    /\ venue \in venues
    /\ by = ByInit(hist)
    /\ bn = BnInit(hist)
    /\ bc = BcInit
    /\ fr = FrInit
    /\ now = 0
    /\ ms = MsInit
    /\ rw = RwInit
    /\ mm = MmInit
    /\ api = ApiInit
    /\ lb = LbInit
    /\ cn = CnInit(IF venue = "binanceConnector" THEN "binance" ELSE "bybit")

\* The Bybit session.
SpecBybit == InitSession({"bybit"}, FALSE) /\ [][NextBybit]_vars

\* The Binance session, streams below the per-connection cap.
SpecBinance == InitSession({"binance"}, FALSE) /\ [][NextBinance]_vars

\* The Binance session, streams split over several connections.
SpecSplit == InitSession({"split"}, FALSE) /\ [][NextBinance]_vars

\* The Binance connector's stream merging.
SpecMerge == InitSession({"merge"}, FALSE) /\ [][NextMerge]_vars

\* Either session, with the history of what predates a disconnect().
SpecCancel ==
    InitSession({"bybit", "binance"}, TRUE) /\ [][NextBybit \/ NextBinance]_vars

\* The Bybit connector's ticker frames, the MarketStore and the price windows.
SpecTicker == InitSession({"ticker"}, FALSE) /\ [][NextTicker]_vars

\* Either session, with frames arriving on its open sockets.
SpecFrames == InitSession({"bybit", "binance"}, FALSE)
                  /\ [][NextFrames]_vars

\* One rolling window.
SpecWindow == InitSession({"window"}, FALSE) /\ [][NextWindow]_vars

\* One price window, fed the price buckets of snapshots.
SpecOhlc == InitSession({"ohlc"}, FALSE) /\ [][NextOhlc]_vars

\* The MetricsManager's ticks over the snapshots delivered.
SpecMetrics == InitSession({"metrics"}, FALSE) /\ [][NextMetrics]_vars

\* The aggregation tick over any snapshots of the MarketStore.
SpecAggregate == InitSession({"aggregate"}, FALSE) /\ [][NextAggregate]_vars

\* The derivation of one instrument's metrics over snapshots and trades.
SpecDerive == InitSession({"derive"}, FALSE) /\ [][NextDerive]_vars

\* The timers of the MetricsManager and of the WebSocketAPI.
SpecTimers == InitSession({"timers"}, FALSE) /\ [][NextTimers]_vars

\* update() of the leaderboard stores over any markets and metrics.
SpecBoards == InitSession({"boards"}, FALSE) /\ [][NextBoards]_vars

\* The leaderboard and aggregation ticks, snapshots and HTTP requests.
SpecReaders == InitSession({"readers"}, FALSE) /\ [][NextReaders]_vars

\* The WebSocketAPI's queue, flushes and consumers.
SpecBroadcast == InitSession({"broadcast"}, FALSE) /\ [][NextBroadcast]_vars

\* The WebSocketAPI's liveness probe.
SpecProbe == InitSession({"probe"}, FALSE) /\ [][NextProbe]_vars

\* The lifecycle of either connector over its session.
SpecConnector ==
    InitSession({"bybitConnector", "binanceConnector"}, FALSE)
        /\ [][NextConnector]_vars

\* Either session.
Init == InitSession({"bybit", "binance"}, FALSE)

Next == NextBybit \/ NextBinance

Spec == Init /\ [][Next]_vars

\* =========================================================================
\* Properties of the exchange sessions
\* =========================================================================
\* A step opened a transport.
Opened(s, t) == LiveCount(t.socks) > LiveCount(s.socks)

\* C1 (as claimed): whenever a Bybit transport reaches open while the tracked
\* topic set is non-empty, a subscribe frame covering every tracked topic is
\* sent in that step.
C1_ResubscribeOnOpen ==
    [][\A k \in Live(by.socks) :
          (BySockOpen(k) /\ by'.subscriptions # <<>>) =>
              \E i \in DOMAIN by'.sent :
                  /\ by'.sent[i].op = "subscribe"
                  /\ Elems(by'.subscriptions) \subseteq Elems(by'.sent[i].args)]_vars

\* C2 (as claimed): a reconnect timer that was pending when disconnect() was
\* called, or that was scheduled by the close event of a socket that existed
\* then, never opens a transport when it fires.
C2_NoReconnectAfterDisconnect ==
    [][/\ \A t \in BagToSet(by.timers) :
             (t.pre /\ ByTimerFire(t)) => ~Opened(by, by')
       /\ \A t \in BagToSet(bn.timers) :
             (t.pre /\ BnTimerFire(t)) => ~Opened(bn, bn')]_vars

\* C3 (as claimed): when a connection closes unplanned with its attempt
\* counter at the cap, no retry is scheduled and the session state becomes
\* "error"; the state stays "error" in every step that is not a connect().
C3_CapIsTerminalError ==
    [][/\ \A k \in Live(by.socks) :
             (/\ BySockClose(k)
              /\ k.rs # "CLOSING" /\ ~by.isManualClose
              /\ by.reconnectAttempts = maxReconnectAttempts)
                 => (by'.timers = by.timers /\ by'.state = "error")
       /\ \A k \in Live(bn.socks) :
             (/\ BnSockClose(k)
              /\ k.rs # "CLOSING" /\ ~bn.isManualClose /\ k.cur
              /\ bn.connections[k.idx].reconnectAttempts = BnMaxAttempts)
                 => (bn'.timers = bn.timers /\ bn'.state = "error")
       /\ (by.state = "error" /\ ~ByConnect) => by'.state = "error"
       /\ (bn.state = "error" /\ ~BnConnect) => bn'.state = "error"]_vars

ByAllOpen == by.state = "connected" /\ ByWsOpen(by)

BnAllOpen ==
    /\ bn.state = "connected"
    /\ Len(bn.connections) > 0
    /\ \A i \in DOMAIN bn.connections : \E k \in BnWs(bn, i) : k.rs = "OPEN"

\* C5 (as claimed): connect() on an open session opens no transport, sends
\* nothing, resets no attempt counter and leaves the state "connected".
C5_ConnectIdempotent ==
    [][/\ (ByAllOpen /\ ByConnect) =>
             /\ by'.socks = by.socks
             /\ by'.sent = <<>>
             /\ by'.reconnectAttempts = by.reconnectAttempts
             /\ by'.state = "connected"
       /\ (BnAllOpen /\ BnConnect) =>
             /\ bn'.socks = bn.socks
             /\ bn'.connections = bn.connections
             /\ bn'.state = "connected"]_vars

\* min(1000 * 2^(n-1), 30000) for n = 1..10, written out.
BackoffTable == <<1000, 2000, 4000, 8000, 16000, 30000, 30000, 30000, 30000, 30000>>

\* C6: the step that raises a connection's attempt counter to n (n in 1..10)
\* sets a timer of min(1000 * 2^(n-1), 30000) ms, and the attempt counter of
\* a connection is 0 right after its socket opened.
C6_Backoff ==
    [][/\ \A n \in 1..10 :
             (by.reconnectAttempts = n - 1 /\ by'.reconnectAttempts = n) =>
                 \E t \in BagToSet(by'.timers) :
                     t.delay = BackoffTable[n] /\ by'.timers = BagAdd(by.timers, t)
       /\ \A n \in 1..10 : \A i \in DOMAIN bn.connections :
             (/\ i \in DOMAIN bn'.connections
              /\ bn.connections[i].reconnectAttempts = n - 1
              /\ bn'.connections[i].reconnectAttempts = n) =>
                 \E t \in BagToSet(bn'.timers) :
                     /\ t.delay = BackoffTable[n] /\ t.idx = i
                     /\ bn'.timers = BagAdd(bn.timers, t)
       /\ \A k \in Live(by.socks) : BySockOpen(k) => by'.reconnectAttempts = 0
       /\ \A k \in Live(bn.socks) :
             (BnSockOpen(k) /\ k.cur) =>
                 bn'.connections[k.idx].reconnectAttempts = 0]_vars

\* C6 witness: the tenth retry is pending with the capped delay.
C6_TenthRetryPending ==
    \/ /\ by.reconnectAttempts = 10
       /\ \E t \in BagToSet(by.timers) : t.delay = 30000
    \/ /\ \E i \in DOMAIN bn.connections : bn.connections[i].reconnectAttempts = 10
       /\ \E t \in BagToSet(bn.timers) : t.delay = 30000

\* C7: with k >= 1 tracked streams the Binance session holds ceil(k/50)
\* connection records, whose stream groups have at most 50 streams, are
\* pairwise disjoint and together hold exactly the tracked streams.
C7_Partition ==
    LET k == Len(bn.subscribedStreams)
        conns == bn.connections
    IN k >= 1 =>
        /\ Len(conns) = (k + 49) \div 50
        /\ \A i \in DOMAIN conns :
              /\ Len(conns[i].streams) <= 50
              /\ Cardinality(Elems(conns[i].streams)) = Len(conns[i].streams)
        /\ \A i, j \in DOMAIN conns :
              i # j => Elems(conns[i].streams) \cap Elems(conns[j].streams) = {}
        /\ UNION {Elems(conns[i].streams) : i \in DOMAIN conns}
              = Elems(bn.subscribedStreams)

\* C7 witness: 40 streams are tracked on exactly one connection, and a socket
\* of the third connection of the earlier 120-stream partition still exists.
C7_CollapsedToOne ==
    /\ Len(bn.subscribedStreams) = 40
    /\ Len(bn.connections) = 1
    /\ \E k \in Live(bn.socks) : ~k.cur /\ k.idx = 3

\* C8: Bybit subscribe(topics) with the transport open sends exactly one
\* subscribe frame holding exactly the topics not yet tracked (none if all
\* are tracked); with the transport not open it sends nothing; in both cases
\* the tracked set becomes the union.
C8_SubscribeSendsNew ==
    [][\A topics \in TopicArrays :
          BySubscribe(topics) =>
              LET new == Elems(topics) \ Elems(by.subscriptions)
              IN /\ Elems(by'.subscriptions)
                        = Elems(by.subscriptions) \cup Elems(topics)
                 /\ (ByWsOpen(by) /\ new # {}) =>
                        /\ Len(by'.sent) = 1
                        /\ by'.sent[1].op = "subscribe"
                        /\ Elems(by'.sent[1].args) = new
                 /\ (~ByWsOpen(by) \/ new = {}) => by'.sent = <<>>]_vars

\* C8 witness: a subscribe frame was just sent that holds a new topic and not
\* the topic that was tracked already.
C8_SentOnlyNew ==
    /\ Len(by.sent) = 1
    /\ by.sent[1].op = "subscribe"
    /\ Elems(by.sent[1].args) # Elems(by.subscriptions)

C10_MergeLatestFragments ==
    LET msg == bc.last
    IN IF AcceptedAs(msg) = "" THEN bc.emitted = <<>>
       ELSE LET symbol == ToUpperCase(msg.stream[1])
                f == bc.seen[symbol]
            IN IF f.ticker = None THEN bc.emitted = <<>>
               ELSE /\ Len(bc.emitted) = 1
                    /\ bc.emitted[1].exchangeSymbol = symbol
                    /\ bc.emitted[1].lastPrice = OrZero(ParseFloat(f.ticker.c))
                    /\ bc.emitted[1].markPrice =
                           (IF f.markPrice = None THEN [null |-> TRUE]
                            ELSE [value |-> ParseFloat(f.markPrice.p)])
                    /\ bc.emitted[1].bestBid =
                           (IF f.bookTicker = None
                            THEN OrZero(ParseFloat(f.ticker.b))
                            ELSE ParseFloat(f.bookTicker.b))

\* C10 witness: a ticker frame was just accepted and the snapshot it emitted
\* carries the mark price and the best bid of frames received before it.
C10_OlderFragmentsKept ==
    /\ AcceptedAs(bc.last) = "ticker"
    /\ Len(bc.emitted) = 1
    /\ bc.emitted[1].markPrice = [value |-> <<2>>]
    /\ bc.emitted[1].bestBid = <<2>>
    /\ bc.emitted[1].lastPrice = <<1>>


\* =========================================================================
\* Properties of the ticker handler, the MarketStore and the MetricsManager
\* =========================================================================
\* The data of a ticker frame lacks a required field (symbol, last price),
\* or its last price does not parse to a number.
LacksRequired(data) ==
    \/ data = None
    \/ ~IsString(data.symbol)
    \/ ~IsString(data.lastPrice)
    \/ ParseFloat(data.lastPrice) = <<>>

Overdue == {id \in DOMAIN ms.markets :
               now - ms.markets[id].updatedAt > freshnessMs}

AsDelivered(market) == [market EXCEPT !.dataAge = 0, !.isFresh = TRUE]

\* C14: the store holds an entry for exactly the ids a snapshot was delivered
\* for, and get(id) is the snapshot delivered last for that id.
C14_LatestSnapshotStored ==
    /\ DOMAIN ms.markets = DOMAIN ms.latest
    /\ \A id \in DOMAIN ms.latest :
           AsDelivered(MarketStoreGet(ms.markets, id)) = ms.latest[id]

\* C14 witness: a snapshot for an id whose earlier snapshot had another last
\* price was just stored.
C14_Replaced ==
    /\ ms.emitted # None
    /\ Len(mm.delivered[ms.emitted.id]) >= 2
    /\ mm.delivered[ms.emitted.id][1].lastPrice # ms.emitted.lastPrice
    /\ MarketStoreGet(ms.markets, ms.emitted.id).lastPrice
           = ms.emitted.lastPrice

\* =========================================================================
\* Properties of handleMessage
\* =========================================================================
\* A frame that fails to parse, or that carries no topic/stream and data.
Unusable(frame) ==
    \/ frame.syntax # "object"
    \/ ~(Truthy(frame.label) /\ Truthy(frame.data))

\* The session's connection state, tracked topics, attempt counters, sockets
\* and timers.
BySession(s) ==
    [s EXCEPT !.sent = <<>>, !.unsub = {}]

\* C12: a frame that fails to parse, or carries no topic/stream and data,
\* emits no "message" event, raises nothing, and leaves the session's state,
\* tracked topics, attempt counters and sockets as they were.
C12_BadFrameDropped ==
    [][/\ \A frame \in Frames :
            (ByMessage(frame) /\ Unusable(frame))
                => /\ fr'.emitted = None
                   /\ ~fr'.raised
                   /\ BySession(by') = BySession(by)
       /\ \A frame \in Frames, k \in BagToSet(bn.socks) :
            (BnMessage(frame, k) /\ Unusable(frame))
                => /\ fr'.emitted = None
                   /\ ~fr'.raised
                   /\ bn' = bn]_vars

\* C12 witness: a session with tracked topics (streams) and an open socket
\* has handled a frame that is no JSON, and emitted nothing.
C12_FrameDropped ==
    /\ fr.syntax = "bad"
    /\ fr.emitted = None
    /\ \/ by.subscriptions # <<>> /\ ByWsOpen(by)
       \/ bn.subscribedStreams # <<>> /\ bn.state = "connected"

\* =========================================================================
\* Properties of the RollingWindow
\* =========================================================================
\* The retention of the window driven on its own.
RwRetentionMs == RwBucketCount * RwBucketSizeMs

RwPosition(lastBucketTime) == lastBucketTime \div RwBucketSizeMs

\* C17: an add() never decreases lastBucketTime nor the cursor's logical
\* position, the cursor index moves with the position, and an add() whose
\* timestamp lies before the current bucket's time moves neither.
C17_CursorNeverBack ==
    rw.adds > 0 =>
        /\ rw.w.lastBucketTime >= rw.pre.lastBucketTime
        /\ RwPosition(rw.w.lastBucketTime)
               >= RwPosition(rw.pre.lastBucketTime)
        /\ rw.w.currentIndex =
               (rw.pre.currentIndex + RwPosition(rw.w.lastBucketTime)
                    - RwPosition(rw.pre.lastBucketTime)) % RwBucketCount
        /\ rw.timestamp < rw.pre.lastBucketTime =>
               /\ rw.w.currentIndex = rw.pre.currentIndex
               /\ rw.w.lastBucketTime = rw.pre.lastBucketTime

\* C17 witness: the last add() was given a timestamp before the current
\* bucket's time, after the cursor had advanced.
C17_EarlierTimestamp ==
    /\ rw.adds > 0
    /\ rw.pre.currentIndex > 0
    /\ rw.timestamp < rw.pre.lastBucketTime

\* =========================================================================
\* Properties of the MetricsManager and of the WebSocketAPI's timers
\* =========================================================================
\* The snapshots delivered for id so far are three, one second apart, with
\* last price 100, 101 and 102.
ThreeRising(id) ==
    LET d == mm.delivered[id]
    IN /\ Len(d) = 3
       /\ d[1].lastPrice = 100 /\ d[2].lastPrice = 101 /\ d[3].lastPrice = 102
       /\ d[2].at = d[1].at + 1000
       /\ d[3].at = d[2].at + 1000

\* id's record was computed by the last step, after every delivery so far.
JustComputed(id) ==
    /\ mm.tickedAt = <<now>>
    /\ id \in DOMAIN mm.contexts
    /\ id \notin mm.threw

C19_TickFailureIsolated ==
    mm.tickedAt = <<now>> =>
        /\ ~mm.raised
        /\ \A id \in DOMAIN mm.contexts :
              IF id \in mm.threw
              THEN /\ (id \in DOMAIN mm.metrics) = (id \in DOMAIN mm.prev)
                   /\ id \in DOMAIN mm.prev => mm.metrics[id] = mm.prev[id]
              ELSE /\ id \in DOMAIN mm.metrics
                   /\ mm.metrics[id]
                          = calculateDerivedMetrics(mm.contexts[id], now, now)

\* C19 witness: in the last tick the derivation threw for an instrument that
\* had a record from an earlier time, and the other instrument got a record.
C19_OneThrewOtherFresh ==
    /\ mm.tickedAt = <<now>>
    /\ \E id \in mm.threw :
           id \in DOMAIN mm.prev /\ mm.prev[id].computedAt < now
    /\ \E id \in DOMAIN mm.contexts \ mm.threw :
           mm.metrics[id].computedAt = now

\* C20 (as claimed): once stop() has returned, and until the next start(), no
\* timer of the MetricsManager or of the WebSocketAPI is left to fire.
C20_NoTimerAfterStop ==
    /\ mm.stopped => mm.intervals = EmptyBag
    /\ api.stopped => api.intervals = EmptyBag

\* =========================================================================
\* Properties of the leaderboards
\* =========================================================================
\* The market of the last update() call that has this id.
InputMarket(id) ==
    lb.inputs.markets[CHOOSE i \in DOMAIN lb.inputs.markets :
                          lb.inputs.markets[i].id = id]

\* The filter of a view of the EnhancedLeaderboardStore: the 24h change for
\* the price views, a metrics record for the views built from metrics.
PassesFilter(name, market) ==
    CASE name = "gainers_1h" -> market.priceChangePercent24h > 0
      [] name = "losers_1h" -> market.priceChangePercent24h < 0
      [] OTHER -> market.id \in DOMAIN lb.inputs.metrics

Passing(name) ==
    {lb.inputs.markets[i].id :
         i \in {j \in DOMAIN lb.inputs.markets :
                    PassesFilter(name, lb.inputs.markets[j])}}

\* C27: after update(snapshots, metrics) every view lists exactly the
\* instruments of that call's inputs that pass the view's filter, each once:
\* an instrument absent from the inputs or no longer passing the filter is
\* in no entry, and no entry of an earlier tick remains.
C27_ViewsFromThisCall ==
    lb.updated =>
        /\ \A name \in DOMAIN lb.enhanced :
               /\ Listed(lb.enhanced[name]) = Passing(name)
               /\ Len(lb.enhanced[name]) = Cardinality(Passing(name))
               /\ \A k \in DOMAIN lb.enhanced[name] :
                      /\ lb.enhanced[name][k].symbol
                             = InputMarket(lb.enhanced[name][k].id).symbol
                      /\ lb.enhanced[name][k].exchange
                             = InputMarket(lb.enhanced[name][k].id).exchange
        /\ Listed(lb.leaderboards["gainers_1h"])
               = Listed(lb.inputs.markets)
        /\ Len(lb.leaderboards["gainers_1h"]) = Len(lb.inputs.markets)

\* C27 witness: a second update() whose inputs no longer put an instrument
\* in a view that listed it, while the view still lists another.
C27_InstrumentLeft ==
    /\ lb.updated
    /\ lb.left
    /\ \E name \in DOMAIN lb.enhanced : lb.enhanced[name] # <<>>
    /\ Len(lb.inputs.markets) < Len(BoardIds)

\* C28: every entry of `pumping` is an instrument whose metrics have a
\* positive 1h change, a surge above 1.5 and a positive cumulative delta,
\* scored change * surge; every entry of `dumping` one with a negative
\* change, a surge above 1.5 and a negative delta, scored |change| * surge.
C28_SignalsOnlyQualified ==
    lb.updated =>
        /\ \A k \in DOMAIN lb.enhanced["pumping"] :
               LET e == lb.enhanced["pumping"][k]
                   m == lb.inputs.metrics[e.id]
               IN  /\ m.priceChangePercent1h > 0
                   /\ m.volumeSurge15m > SurgeThreshold
                   /\ m.cvd1h > 0
                   /\ e.value = m.priceChangePercent1h * m.volumeSurge15m
        /\ \A k \in DOMAIN lb.enhanced["dumping"] :
               LET e == lb.enhanced["dumping"][k]
                   m == lb.inputs.metrics[e.id]
               IN  /\ m.priceChangePercent1h < 0
                   /\ m.volumeSurge15m > SurgeThreshold
                   /\ m.cvd1h < 0
                   /\ e.value
                          = Abs(m.priceChangePercent1h) * m.volumeSurge15m

\* Each entry is not below the next, and above it if the values differ.
Descending(entries) ==
    \A k \in DOMAIN entries :
        k + 1 \in DOMAIN entries =>
            /\ entries[k].value >= entries[k + 1].value
            /\ (\A i, j \in DOMAIN entries :
                    i # j => entries[i].value # entries[j].value)
                   => entries[k].value > entries[k + 1].value

\* C29: the gainers view, in either store, holds the 24h changes of the
\* instruments it lists in descending order, strictly descending when the
\* changes are distinct.
C29_GainersDescending ==
    lb.updated =>
        \A entries \in {lb.enhanced["gainers_1h"],
                        lb.leaderboards["gainers_1h"]} :
            /\ Descending(entries)
            /\ \A k \in DOMAIN entries :
                   entries[k].value
                       = InputMarket(entries[k].id).priceChangePercent24h

\* C29 witness: three gainers, not all of one value, listed in another
\* order than update() was given them.
C29_GainersReordered ==
    LET entries == lb.enhanced["gainers_1h"]
    IN  /\ lb.updated
        /\ Len(entries) = 3
        /\ entries[1].value > entries[3].value
        /\ entries[1].id # lb.inputs.markets[1].id

\* C30: in every view the entry at position k, counted from 1, has rank k.
C30_RanksGapless ==
    /\ \A name \in DOMAIN lb.enhanced :
           \A k \in DOMAIN lb.enhanced[name] :
               lb.enhanced[name][k].rank = k
    /\ \A name \in DOMAIN lb.leaderboards :
           \A k \in DOMAIN lb.leaderboards[name] :
               lb.leaderboards[name][k].rank = k

\* C30 witness: a view built from markets and one built from metrics, of
\* two and of three entries.
C30_RankedViews ==
    /\ lb.updated
    /\ Len(lb.enhanced["losers_1h"]) = 2
    /\ Len(lb.enhanced["volume_surge"]) = 3


\* The views of one leaderboard tick over these inputs.
ViewsOf(inputs) == EnhancedViews(inputs.markets, inputs.metrics)

\* C21: a request is answered from complete results: the aggregated store
\* holds, at every moment a reader can run, the whole aggregate of the
\* markets of the last aggregation tick, and the views hold the result of
\* the last leaderboard tick, all from that one tick.
C21_ReadersSeeWholeRebuild ==
    /\ \A symbol \in DOMAIN aggregateMarketsBySymbol(lb.aggregatedOf) :
           /\ symbol \in DOMAIN lb.aggregatedStore
           /\ lb.aggregatedStore[symbol]
                  = aggregateMarketsBySymbol(lb.aggregatedOf)[symbol]
    /\ DOMAIN lb.aggregatedStore
           \subseteq DOMAIN aggregateMarketsBySymbol(lb.aggregatedOf)
    /\ lb.updated =>
           \A name \in DOMAIN ViewsOf(lb.inputs) :
               lb.enhanced[name] = ViewsOf(lb.inputs)[name]
    /\ lb.read.route = "aggregated" =>
           lb.read.body
               = {aggregateMarketsBySymbol(lb.aggregatedOf)[symbol] :
                      symbol \in DOMAIN
                          aggregateMarketsBySymbol(lb.aggregatedOf)}
    /\ lb.read.route = "signals" =>
           /\ lb.read.pumping = Len(ViewsOf(lb.inputs)["pumping"])
           /\ lb.read.dumping = Len(ViewsOf(lb.inputs)["dumping"])
           /\ lb.read.volumeSurge = Len(ViewsOf(lb.inputs)["volume_surge"])
           /\ lb.read.topPumping = ViewsOf(lb.inputs)["pumping"]
           /\ lb.read.topDumping = ViewsOf(lb.inputs)["dumping"]
    /\ lb.read.route = "leaderboard" =>
           /\ lb.read.entries
                  = slice(ViewsOf(lb.inputs)[lb.read.name], <<0>>, lb.read.limit)
           /\ lb.read.totalCount = Len(ViewsOf(lb.inputs)[lb.read.name])

\* C21 witness: the aggregate is read after a rebuild over markets newer
\* than those of the last leaderboard tick, and it is not empty.
C21_ReadAfterRebuild ==
    /\ lb.read.route = "aggregated"
    /\ lb.read.body # {}
    /\ lb.updated
    /\ lb.inputs.markets # <<>>
    /\ lb.inputs.markets # lb.aggregatedOf
    /\ lb.aggregatedOf # getAll(lb.store)


\* =========================================================================
\* Properties of the broadcast
\* =========================================================================
\* The update messages of the last step.
Updates == SelectSeq(api.out, LAMBDA m : m.event = "update")

\* C22: the pending market queue holds at most one value per instrument id,
\* the last one enqueued since the last flush; a flush sends one `markets`
\* message with exactly those values (none if nothing was pending) and
\* leaves the queue empty.
C22_QueueCoalesces ==
    /\ \A i, j \in DOMAIN api.markets :
           i # j => api.markets[i].key # api.markets[j].key
    /\ {api.markets[i].key : i \in DOMAIN api.markets} = DOMAIN api.pending
    /\ \A i \in DOMAIN api.markets :
           api.markets[i].value = api.pending[api.markets[i].key].value
    /\ api.ran = "broadcastInterval" =>
           LET bulk == SelectSeq(api.out, LAMBDA m : m.channel = "markets")
           IN  /\ api.markets = <<>>
               /\ DOMAIN api.pending = {}
               /\ IF DOMAIN api.flushed = {} THEN bulk = <<>>
                  ELSE /\ Len(bulk) = 1
                       /\ Len(bulk[1].data) = Cardinality(DOMAIN api.flushed)
                       /\ Elems(bulk[1].data)
                              = {api.flushed[id].value :
                                     id \in DOMAIN api.flushed}

\* C22 witness: a flush of two instruments, one of them enqueued twice and
\* sent with its second price.
C22_CoalescedFlush ==
    /\ api.ran = "broadcastInterval"
    /\ DOMAIN api.flushed = {BoardIds[1], BoardIds[2]}
    /\ api.flushed[BoardIds[1]].writes = 2
    /\ \E k \in DOMAIN api.out :
           /\ api.out[k].channel = "markets"
           /\ Len(api.out[k].data) = 2

\* C23: a flush emits at most one message per channel.
C23_OneMessagePerChannel ==
    api.ran = "broadcastInterval" =>
        \A i, j \in DOMAIN api.out :
            i # j => api.out[i].channel # api.out[j].channel

\* C25: an update message of channel c goes only to consumers whose
\* subscriptions hold c or "*" when it is sent, so to none that has
\* unsubscribed from c and holds no "*".
C25_OnlySubscribers ==
    \A k \in DOMAIN Updates :
        \A ws \in Updates[k].to :
            /\ ws \in DOMAIN api.clients
            /\ \/ Updates[k].channel \in api.clients[ws].subscriptions
               \/ "*" \in api.clients[ws].subscriptions
            /\ \/ Updates[k].channel \notin api.clients[ws].dropped
               \/ "*" \in api.clients[ws].subscriptions

\* C25 witness: a `markets` message, not the first update, that a connected
\* consumer is not sent: it has unsubscribed from `markets` and holds no "*".
C25_SkippedAfterUnsubscribe ==
    \E k \in DOMAIN Updates : \E ws \in DOMAIN api.clients :
        /\ Updates[k].channel = "markets"
        /\ ws \notin Updates[k].to
        /\ "markets" \in api.clients[ws].dropped
        /\ "*" \notin api.clients[ws].subscriptions
        /\ api.sequenceNumber > 1

\* C26: the update messages of a step carry sequence numbers above every
\* number issued before the step, increasing in the order they are sent; a
\* consumer is sent some of them, in that order, so the numbers it receives
\* increase strictly.
C26_SequenceIncreases ==
    [][LET sent == SelectSeq(api'.out, LAMBDA m : m.event = "update")
       IN  /\ \A k \in DOMAIN sent :
                  sent[k].sequence[1] > api.sequenceNumber
           /\ \A i, j \in DOMAIN sent :
                  i < j => sent[i].sequence[1] < sent[j].sequence[1]
           /\ api'.sequenceNumber >= api.sequenceNumber]_vars

\* C26 witness: a flush sends a consumer updates of several channels after
\* an earlier update.
C26_SeveralChannels ==
    \E ws \in DOMAIN api.clients : \E i, j \in DOMAIN Updates :
        /\ api.ran = "broadcastInterval"
        /\ i < j
        /\ ws \in Updates[i].to /\ ws \in Updates[j].to
        /\ Updates[i].channel # Updates[j].channel
        /\ Updates[i].sequence[1] > 1

\* C24: at a liveness tick a consumer is terminated and removed exactly if
\* an earlier tick has passed over it and no pong of it has arrived since;
\* one whose pong arrives between the ticks stays.
C24_ProbeRemovesSilent ==
    [][api'.ran = "pingInterval" =>
           \A ws \in DOMAIN api.clients :
               /\ (ws \notin DOMAIN api'.clients)
                      <=> (api.clients[ws].probes > 0 /\ ~api.clients[ws].acked)
               /\ (ws \in api'.removed) <=> (ws \notin DOMAIN api'.clients)]_vars

\* C24 witness: one tick removes a silent consumer and keeps one that has
\* answered the tick before; that one holds a subscription.
C24_SilentRemovedAnsweringKept ==
    /\ api.ran = "pingInterval"
    /\ api.removed # {}
    /\ \E ws \in DOMAIN api.clients :
           /\ api.clients[ws].probes = 2
           /\ api.clients[ws].subscriptions # {}


\* =========================================================================
\* Properties of the limited reads
\* =========================================================================
\* The full list of the view a request named.
ViewRead ==
    IF lb.read.name \in DOMAIN lb.enhanced THEN lb.enhanced[lb.read.name]
    ELSE <<>>

\* C31: a request with an integer limit is answered with no more than
\* min(limit, N) entries of the N of the view (none, if that is below 0),
\* and they are the first entries of the view.
C31_AtMostLimit ==
    (lb.read.route = "leaderboard" /\ lb.read.limit # <<>>) =>
        /\ Len(lb.read.entries)
               <= Max(0, Min(lb.read.limit[1], Len(ViewRead)))
        /\ lb.read.entries = SubSeq(ViewRead, 1, Len(lb.read.entries))

\* =========================================================================
\* Properties of the cross-venue aggregate
\* =========================================================================
\* The venues that have a snapshot of a symbol in the MarketStore.
VenuesOf(symbol) ==
    {lb.store[id].exchange :
         id \in {i \in DOMAIN lb.store : lb.store[i].symbol = symbol}}

\* C32: after an aggregation tick the aggregated store holds exactly the
\* symbols of which two or more venues have a snapshot in the MarketStore.
C32_ExactlyMultiVenue ==
    lb.read.route = "aggregation" =>
        DOMAIN lb.aggregatedStore
            = {symbol \in {lb.store[id].symbol : id \in DOMAIN lb.store} :
                   Cardinality(VenuesOf(symbol)) >= 2}

\* C32 witness: a tick over a symbol of one venue, which the store held
\* after an earlier tick, and a second symbol of one venue.
C32_SingleVenueDropped ==
    /\ lb.read.route = "aggregation"
    /\ lb.left
    /\ Cardinality(VenuesOf("BTC-USDT-PERP")) = 1
    /\ Cardinality(VenuesOf("ETH-USDT-PERP")) = 1
    /\ lb.aggregatedStore = EmptyMap

\* The markets of a symbol at the last aggregation tick.
GroupOf(symbol) ==
    {m \in Elems(lb.aggregatedOf) : m.symbol = symbol}

\* C33: for every aggregated group, the best bid is the highest bid and the
\* best ask the lowest ask of the group, each with a venue that quotes it;
\* the opportunity exists exactly if the best bid is above the best ask
\* and the two venues differ; then the buy venue is the venue of the best
\* ask, the sell venue the venue of the best bid, and the profit is
\* (bestBid - bestAsk) / bestAsk * 100 percent: 1.00 percent for 101 over
\* 100, none for 99 under 100.  Without an opportunity the two prices are
\* reported all the same.
C33_ArbitrageIffCrossedVenues ==
    \A symbol \in DOMAIN lb.aggregatedStore :
        LET a == lb.aggregatedStore[symbol]
            o == a.arbitrageOpportunity
        IN  /\ \A m \in GroupOf(symbol) :
                   m.bestBid <= a.bestBid /\ a.bestAsk <= m.bestAsk
            /\ \E m \in GroupOf(symbol) :
                   m.exchange = a.bestBidExchange /\ m.bestBid = a.bestBid
            /\ \E m \in GroupOf(symbol) :
                   m.exchange = a.bestAskExchange /\ m.bestAsk = a.bestAsk
            /\ o.exists <=> (a.bestBid > a.bestAsk
                                /\ a.bestBidExchange # a.bestAskExchange)
            /\ o.exists =>
                   /\ o.buyExchange = a.bestAskExchange
                   /\ o.sellExchange = a.bestBidExchange
                   /\ o.profitPercent * a.bestAsk
                          <= (a.bestBid - a.bestAsk) * 10000
                   /\ (o.profitPercent + 1) * a.bestAsk
                          > (a.bestBid - a.bestAsk) * 10000
            /\ (o.exists /\ a.bestBid = 101 /\ a.bestAsk = 100) =>
                   o.profitPercent = 100
            /\ (a.bestBid = 99 /\ a.bestAsk = 100) => ~o.exists
            /\ ~o.exists => o.profitPercent = 0
            /\ o.buyPrice = a.bestAsk /\ o.sellPrice = a.bestBid

\* C33 witness: 101 bid at one venue and 100 asked at the other: buy
\* there, sell here, 1.00 percent.
C33_BuyLowSellHigh ==
    /\ "BTC-USDT-PERP" \in DOMAIN lb.aggregatedStore
    /\ LET a == lb.aggregatedStore["BTC-USDT-PERP"]
       IN  /\ a.bestBid = 101 /\ a.bestBidExchange = "bybit"
           /\ a.bestAsk = 100 /\ a.bestAskExchange = "binance"
           /\ a.arbitrageOpportunity.exists
           /\ a.arbitrageOpportunity.buyExchange = "binance"
           /\ a.arbitrageOpportunity.sellExchange = "bybit"
           /\ a.arbitrageOpportunity.profitPercent = 100

\* =========================================================================
\* Properties of the price window's merge
\* =========================================================================
\* C36: the bucket of the last add() holds the prices added in its bucket
\* interval: the first as open, the highest as high, the lowest as low and
\* the last as close.
C36_BucketIsOhlc ==
    rw.run # <<>> =>
        LET value == rw.w.buckets[rw.w.currentIndex].value
        IN  /\ value.open = rw.run[1]
            /\ value.close = rw.run[Len(rw.run)]
            /\ value.high \in Elems(rw.run)
            /\ \A p \in Elems(rw.run) : p <= value.high
            /\ value.low # Infinity
            /\ value.low[1] \in Elems(rw.run)
            /\ \A p \in Elems(rw.run) : value.low[1] <= p

\* C36 witness: three prices in one interval that is not the first: the
\* second is the highest and the third the lowest.
C36_ThreeInOneBucket ==
    /\ rw.run = <<2, 3, 1>>
    /\ rw.w.currentIndex > 0
    /\ rw.w.buckets[rw.w.currentIndex].value.high = 3
    /\ rw.w.buckets[rw.w.currentIndex].value.low = <<1>>

\* =========================================================================
\* Properties of the derivation
\* =========================================================================
\* The records the last step's computeAll() wrote.
Derived ==
    IF mm.tickedAt = <<>> THEN {}
    ELSE {mm.metrics[id] : id \in DOMAIN mm.contexts \ mm.threw}

\* buyVolume - sellVolume summed over the buckets at the indexes `idxs`.
RECURSIVE DeltaOver(_, _)
DeltaOver(w, idxs) ==
    IF idxs = {} THEN 0
    ELSE LET i == CHOOSE i \in idxs : TRUE
         IN  w.buckets[i].value.buyVolume - w.buckets[i].value.sellVolume
                 + DeltaOver(w, idxs \ {i})

\* The buckets of a window whose timestamp lies within the horizon of the
\* window at time t.
WithinHorizon(w, t) ==
    {i \in DOMAIN w.buckets :
         /\ w.buckets[i].timestamp >= t - w.bucketSizeMs * w.bucketCount
         /\ w.buckets[i].timestamp <= t}

\* C34: the CVD a tick reports for a volume window is the sum of
\* buyVolume - sellVolume over the buckets within the window's horizon at
\* the time of the tick, and 0 if there is none.
C34_CvdIsDeltaOfRange ==
    \A record \in Derived :
        LET context == mm.contexts[record.id]
            t == record.computedAt
        IN  /\ record.cvd1m
                   = DeltaOver(context.volumeWindow1m,
                               WithinHorizon(context.volumeWindow1m, t))
            /\ record.cvd5m
                   = DeltaOver(context.volumeWindow5m,
                               WithinHorizon(context.volumeWindow5m, t))
            /\ record.cvd15m
                   = DeltaOver(context.volumeWindow15m,
                               WithinHorizon(context.volumeWindow15m, t))
            /\ record.cvd1h
                   = DeltaOver(context.volumeWindow1h,
                               WithinHorizon(context.volumeWindow1h, t))
            /\ context.volumeWindow1m.buckets = <<>> => record.cvd1m = 0

\* C34 witness: a purchase has left the horizon of the one-minute window
\* and a sale lies in it: the two windows report different deltas.
C34_HorizonsDiffer ==
    \E record \in Derived :
        /\ record.cvd1m < 0
        /\ record.cvd1h > 0
        /\ record.cvd5m = record.cvd1h

\* C37: the priceAcceleration a tick writes is 0.
C37_AccelerationZero ==
    \A record \in Derived : record.priceAcceleration = 0

\* C37, amended: the priceAcceleration a tick writes is 0 unless the clock
\* advanced between the two evaluations of the velocity past the timestamp
\* of a bucket at the start of the minute.
C37_AccelerationZeroSameBuckets ==
    \A record \in Derived :
        LET w == mm.contexts[record.id].priceWindow1m
            t == mm.tickedAt[1]
            u == record.computedAt
        IN  (\A i \in DOMAIN w.buckets :
                 ~(/\ w.buckets[i].timestamp >= t - 60000
                   /\ w.buckets[i].timestamp < u - 60000))
                => record.priceAcceleration = 0

\* C37 witness: the clock advanced between the two evaluations, the
\* velocity is not 0 and the acceleration is.
C37_DriftUnseen ==
    \E record \in Derived :
        /\ record.computedAt > mm.tickedAt[1]
        /\ record.priceVelocity # 0
        /\ record.priceAcceleration = 0

\* =========================================================================
\* Properties of the sessions' transports
\* =========================================================================
\* The sockets of a session that are connecting or open.
Transports(socks) ==
    CountIn(socks, {k \in BagToSet(socks) : k.rs \in {"CONNECTING", "OPEN"}})

\* C38: the Bybit session has at most one socket that is connecting or
\* open.
C38_AtMostOneTransport == Transports(by.socks) <= 1

\* C35: the close event of a socket of a partition that was replaced leaves
\* the attempt counters of the connections and the pending retries as they
\* are.
C35_ReplacedCloseIsInert ==
    [][\A k \in Live(bn.socks) :
           (~k.cur /\ bn' = BnOnClose(bn, k)) =>
               /\ bn'.timers = bn.timers
               /\ \A i \in DOMAIN bn.connections :
                      bn'.connections[i].reconnectAttempts
                          = bn.connections[i].reconnectAttempts]_vars

\* C39: the streams of the connection records are the tracked streams.
C39_GroupsAreTracked ==
    UNION {Elems(bn.connections[i].streams) : i \in DOMAIN bn.connections}
        = Elems(bn.subscribedStreams)

\* =========================================================================
\* Properties of the connectors' lifecycle
\* =========================================================================
\* The call of the step finds its precondition unmet: start() before
\* initialize(), subscribeToTickers() while the connector is not started.
Refused ==
    \/ cn'.call.op = "start" /\ ~cn.isInitialized
    \/ cn'.call.op = "subscribeToTickers" /\ ~cn.isStarted

\* C40: start() before initialize(), and subscribeToTickers() before start()
\* or after stop(), throw and leave the connector (its started flag and its
\* tracked symbols among the rest) and its session as they were: no socket
\* created, no frame sent.
C40_RefusedCallChangesNothing ==
    [][Refused =>
          /\ cn'.call.threw
          /\ cn' = [cn EXCEPT !.call = cn'.call]
          /\ by' = ByStart(by)
          /\ bn' = bn]_vars

\* C40: subscribeToTickers() threw after a stop() that closed a socket.
C40_RefusedAfterStop ==
    /\ cn.call = [op |-> "subscribeToTickers", threw |-> TRUE]
    /\ cn.isInitialized
    /\ CnSession.isManualClose
    /\ \E k \in BagToSet(CnSession.socks) : k.rs = "CLOSING"
====
